---- MODULE Spec2Model ----
(***************************************************************************)
(* The Hot-or-Not betting engine of a post: the contest time grid, bet     *)
(* placement with room spill-over, and slot tabulation.                    *)
(*                                                                         *)
(* Source: src/lib/shared_utils/src/canister_specific/                     *)
(*         individual_user_template/types/hot_or_not/mod.rs                *)
(*                                                                         *)
(* Option<T> is modelled as a sequence of length at most one: <<>> is None *)
(* and <<x>> is Some(x).  A BTreeMap is a function; its keys are DOMAIN.   *)
(* Every operation is one atomic action (the engine is single-threaded and *)
(* synchronous).  A panic (unwrap of None) aborts the call: the post is    *)
(* left as it was and the call's result is Panic.                          *)
(***************************************************************************)
EXTENDS Integers, Sequences, FiniteSets, TLC

VARIABLES id, created_at, hot_or_not_details, token_balance, ret, opening,
          memory_manager

vars == <<id, created_at, hot_or_not_details, token_balance, ret, opening,
          memory_manager>>

(***************************************************************************)
(* Program constants.                                                      *)
(***************************************************************************)
MAXIMUM_NUMBER_OF_SLOTS == 48

DURATION_OF_EACH_SLOT_IN_SECONDS == 60 * 60

TOTAL_DURATION_OF_ALL_SLOTS_IN_SECONDS ==
    MAXIMUM_NUMBER_OF_SLOTS * DURATION_OF_EACH_SLOT_IN_SECONDS

\* the literal 100 of `bets_made_currently.len() < 100`
ROOM_CAPACITY == 100

HOT_OR_NOT_BET_CREATOR_COMMISSION_PERCENTAGE == 10

HOT_OR_NOT_BET_WINNINGS_MULTIPLIER == 2

(***************************************************************************)
(* Bounds of the model.                                                    *)
(***************************************************************************)
\* principals that place bets at any time, besides those of the opening
NumBetMakers == 1

\* the most bets a run opens with (by the principals 1, 2, ... in turn, at
\* elapsed 0); one more than a full room, so that the opening itself spills
MaxOpeningBets == 101

(***************************************************************************)
(* Inputs.                                                                 *)
(***************************************************************************)
\* Principal::anonymous()
Anonymous == 0

OpeningPrincipals == 1 .. MaxOpeningBets

BetMakers == (MaxOpeningBets + 1) .. (MaxOpeningBets + NumBetMakers)

\* callers: the anonymous principal and the bet makers
Principals == {Anonymous} \cup BetMakers

\* now - created_at, in whole seconds: both ends of slot 1, the start of
\* slot 2, the last second of the window and the first second after it
ElapsedTimes ==
    {0, DURATION_OF_EACH_SLOT_IN_SECONDS,
     TOTAL_DURATION_OF_ALL_SLOTS_IN_SECONDS,
     TOTAL_DURATION_OF_ALL_SLOTS_IN_SECONDS + 1}

\* amounts of the bet makers' bets (the opening bets use 10, 50 and 100)
Amounts == {7}

Directions == {"Hot", "Not"}

\* slot ids handed to tabulation (a u8)
TabulatedSlots == {1, 2, MAXIMUM_NUMBER_OF_SLOTS, MAXIMUM_NUMBER_OF_SLOTS + 1}

\* times at which tabulation is called
TabulationTimes == {DURATION_OF_EACH_SLOT_IN_SECONDS}

\* the canister of the post
PostCanisterIds == {"post_canister"}

\* the canister of a bet maker
CanisterOf(p) == <<"canister", p>>

(***************************************************************************)
(* Helpers.                                                                *)
(***************************************************************************)
None == <<>>

Some(x) == <<x>>

\* `as u8`
AsU8(n) == n % 256

\* BTreeMap::last_key_value: the greatest key
LastKey(m) == CHOOSE k \in DOMAIN m : \A j \in DOMAIN m : j <= k

\* BTreeMap::insert
Insert(m, k, v) == [j \in DOMAIN m \cup {k} |-> IF j = k THEN v ELSE m[j]]

(***************************************************************************)
(* Default values of the types.                                            *)
(***************************************************************************)
NotCalculatedYet == [tag |-> "NotCalculatedYet", value |-> 0]

Calculated(v) == [tag |-> "Calculated", value |-> v]

RoomDetailsDefault ==
    [bets_made |-> <<>>, bet_outcome |-> "BetOngoing",
     room_bets_total_pot |-> 0, total_hot_bets |-> 0, total_not_bets |-> 0]

SlotDetailsDefault == [room_details |-> <<>>]

AggregateStatsDefault ==
    [total_number_of_hot_bets |-> 0, total_number_of_not_bets |-> 0,
     total_amount_bet |-> 0]

HotOrNotDetailsDefault ==
    [aggregate_stats |-> AggregateStatsDefault, slot_history |-> <<>>]

BetDetails(amount, direction, canister) ==
    [amount |-> amount, bet_direction |-> direction,
     payout |-> NotCalculatedYet, bet_maker_canister_id |-> canister]

BettingClosed == [tag |-> "BettingClosed"]

Panic == [tag |-> "Panic"]

Err(e) == [tag |-> "Err", error |-> e]

BettingOpen(started, participants, slot, room, participated) ==
    [tag |-> "BettingOpen", started_at |-> started,
     number_of_participants |-> participants, ongoing_slot |-> slot,
     ongoing_room |-> room,
     has_this_user_participated_in_this_post |-> participated]

\* Mutant: only the first slot of slot_history is scanned.
has_this_principal_already_bet_in_first_slot(h, principal_making_bet) ==
    \E s \in DOMAIN h[1].slot_history :
        /\ \A t \in DOMAIN h[1].slot_history : s <= t
        /\ \E r \in DOMAIN h[1].slot_history[s].room_details :
               principal_making_bet
                   \in DOMAIN h[1].slot_history[s].room_details[r].bets_made

\* Mutant: only the first room of each slot is scanned.
has_this_principal_already_bet_in_first_room(h, principal_making_bet) ==
    \E s \in DOMAIN h[1].slot_history :
        /\ 1 \in DOMAIN h[1].slot_history[s].room_details
        /\ principal_making_bet
               \in DOMAIN h[1].slot_history[s].room_details[1].bets_made

(***************************************************************************)
(* Post::has_this_principal_already_bet_on_this_post.  Defined when        *)
(* hot_or_not_details is Some: the code unwraps it, and the operators that *)
(* use it yield Panic on None.                                             *)
(***************************************************************************)
has_this_principal_already_bet_on_this_post(h, principal_making_bet) ==
    \E s \in DOMAIN h[1].slot_history :
        \E r \in DOMAIN h[1].slot_history[s].room_details :
            principal_making_bet
                \in DOMAIN h[1].slot_history[s].room_details[r].bets_made

\* Mutant: the slot is clamped to MAXIMUM_NUMBER_OF_SLOTS.
currently_ongoing_slot_clamped(secs) ==
    IF (secs \div DURATION_OF_EACH_SLOT_IN_SECONDS) + 1 > MAXIMUM_NUMBER_OF_SLOTS
    THEN MAXIMUM_NUMBER_OF_SLOTS
    ELSE (secs \div DURATION_OF_EACH_SLOT_IN_SECONDS) + 1

\* ((numerator / denominator) + 1) as u8
currently_ongoing_slot(secs) ==
    AsU8((secs \div DURATION_OF_EACH_SLOT_IN_SECONDS) + 1)

\* the match arm 0..=TOTAL_DURATION_OF_ALL_SLOTS_IN_SECONDS
contest_is_still_ongoing(secs) ==
    secs \in 0 .. TOTAL_DURATION_OF_ALL_SLOTS_IN_SECONDS

\* the room map of a slot, an absent post state or slot read as the default
room_details_of(h, slot) ==
    LET details == IF h = None THEN HotOrNotDetailsDefault ELSE h[1]
    IN  IF slot \in DOMAIN details.slot_history
        THEN details.slot_history[slot].room_details
        ELSE SlotDetailsDefault.room_details

\* room_details.last_key_value().unwrap_or((&1, default)): the key
currently_active_room_id(rooms) ==
    IF DOMAIN rooms = {} THEN 1 ELSE LastKey(rooms)

\* room_details.last_key_value().unwrap_or((&1, default)): the value
currently_active_room(rooms) ==
    IF DOMAIN rooms = {} THEN RoomDetailsDefault ELSE rooms[LastKey(rooms)]

(***************************************************************************)
(* Post::get_hot_or_not_betting_status_for_this_post, secs being           *)
(* now.duration_since(created_at).as_secs().  Panics when the viewer is    *)
(* not anonymous, the window is open and hot_or_not_details is None.       *)
(***************************************************************************)
get_hot_or_not_betting_status_for_this_post(h, started, secs, principal) ==
    IF contest_is_still_ongoing(secs)
    THEN LET slot == currently_ongoing_slot(secs)
             rooms == room_details_of(h, slot)
         IN  IF principal # Anonymous /\ h = None
             THEN Panic
             ELSE BettingOpen(
                      started,
                      AsU8(Cardinality(DOMAIN currently_active_room(rooms).bets_made)),
                      slot,
                      currently_active_room_id(rooms),
                      IF principal = Anonymous
                      THEN None
                      ELSE Some(has_this_principal_already_bet_on_this_post(
                                    h, principal)))
    ELSE BettingClosed

(***************************************************************************)
(* The successful branch of Post::place_hot_or_not_bet: the post state     *)
(* after the bet is recorded in (ongoing_slot, ongoing_room).              *)
(***************************************************************************)
\* u64 addition; the amounts of the model keep every sum far below 2^64
AddU64(a, b) == a + b

\* Mutant: a room spills one bet early, at 99 bets.
update_bets_made_spills_early(rooms, ongoing_room, principal, canister, amount, direction) ==
    LET room_detail == IF ongoing_room \in DOMAIN rooms
                       THEN rooms[ongoing_room] ELSE RoomDetailsDefault
        with_entry == Insert(rooms, ongoing_room, room_detail)
        bet == BetDetails(amount, direction, canister)
    IN  IF Cardinality(DOMAIN room_detail.bets_made) < ROOM_CAPACITY - 1
        THEN Insert(with_entry, ongoing_room,
                 [room_detail EXCEPT
                    !.bets_made = Insert(room_detail.bets_made, principal, bet),
                    !.room_bets_total_pot = AddU64(@, amount)])
        ELSE Insert(with_entry, ongoing_room + 1,
                 [RoomDetailsDefault EXCEPT
                    !.bets_made = Insert(<<>>, principal, bet),
                    !.room_bets_total_pot = amount])

\* Mutant: the capacity test is off by one (<= instead of <).
update_bets_made_off_by_one(rooms, ongoing_room, principal, canister, amount, direction) ==
    LET room_detail == IF ongoing_room \in DOMAIN rooms
                       THEN rooms[ongoing_room] ELSE RoomDetailsDefault
        with_entry == Insert(rooms, ongoing_room, room_detail)
        bet == BetDetails(amount, direction, canister)
    IN  IF Cardinality(DOMAIN room_detail.bets_made) <= ROOM_CAPACITY
        THEN Insert(with_entry, ongoing_room,
                 [room_detail EXCEPT
                    !.bets_made = Insert(room_detail.bets_made, principal, bet),
                    !.room_bets_total_pot = AddU64(@, amount)])
        ELSE Insert(with_entry, ongoing_room + 1,
                 [RoomDetailsDefault EXCEPT
                    !.bets_made = Insert(<<>>, principal, bet),
                    !.room_bets_total_pot = amount])

\* Mutant: the new room skips an id.
update_bets_made_skips_a_room_id(rooms, ongoing_room, principal, canister, amount, direction) ==
    LET room_detail == IF ongoing_room \in DOMAIN rooms
                       THEN rooms[ongoing_room] ELSE RoomDetailsDefault
        with_entry == Insert(rooms, ongoing_room, room_detail)
        bet == BetDetails(amount, direction, canister)
    IN  IF Cardinality(DOMAIN room_detail.bets_made) < ROOM_CAPACITY
        THEN Insert(with_entry, ongoing_room,
                 [room_detail EXCEPT
                    !.bets_made = Insert(room_detail.bets_made, principal, bet),
                    !.room_bets_total_pot = AddU64(@, amount)])
        ELSE Insert(with_entry, ongoing_room + 2,
                 [RoomDetailsDefault EXCEPT
                    !.bets_made = Insert(<<>>, principal, bet),
                    !.room_bets_total_pot = amount])

\* Mutant: the room a spill creates starts from the pot of the full room.
update_bets_made_spill_keeps_pot(rooms, ongoing_room, principal, canister, amount, direction) ==
    LET room_detail == IF ongoing_room \in DOMAIN rooms
                       THEN rooms[ongoing_room] ELSE RoomDetailsDefault
        with_entry == Insert(rooms, ongoing_room, room_detail)
        bet == BetDetails(amount, direction, canister)
    IN  IF Cardinality(DOMAIN room_detail.bets_made) < ROOM_CAPACITY
        THEN Insert(with_entry, ongoing_room,
                 [room_detail EXCEPT
                    !.bets_made = Insert(room_detail.bets_made, principal, bet),
                    !.room_bets_total_pot = AddU64(@, amount)])
        ELSE Insert(with_entry, ongoing_room + 1,
                 [RoomDetailsDefault EXCEPT
                    !.bets_made = Insert(<<>>, principal, bet),
                    !.room_bets_total_pot =
                        AddU64(room_detail.room_bets_total_pot, amount)])

\* the `if bets_made_currently.len() < 100` statement on the room map of
\* the slot, after entry(ongoing_room).or_default()
update_bets_made(rooms, ongoing_room, principal, canister, amount, direction) ==
    LET room_detail == IF ongoing_room \in DOMAIN rooms
                       THEN rooms[ongoing_room] ELSE RoomDetailsDefault
        with_entry == Insert(rooms, ongoing_room, room_detail)
        bet == BetDetails(amount, direction, canister)
    IN  IF Cardinality(DOMAIN room_detail.bets_made) < ROOM_CAPACITY
        THEN Insert(with_entry, ongoing_room,
                 [room_detail EXCEPT
                    !.bets_made = Insert(room_detail.bets_made, principal, bet),
                    !.room_bets_total_pot = AddU64(@, amount)])
        ELSE Insert(with_entry, ongoing_room + 1,
                 [RoomDetailsDefault EXCEPT
                    !.bets_made = Insert(<<>>, principal, bet),
                    !.room_bets_total_pot = amount])

\* Mutant: the Hot counter of the last room is raised whatever the direction.
update_last_room_entry_always_hot(rooms, direction) ==
    [rooms EXCEPT ![LastKey(rooms)] =
        [@ EXCEPT !.total_hot_bets = AddU64(@, 1)]]

\* Mutant: the counter of the first room of the slot is raised.
update_first_room_entry(rooms, direction) ==
    [rooms EXCEPT ![1] =
        IF direction = "Hot"
        THEN [@ EXCEPT !.total_hot_bets = AddU64(@, 1)]
        ELSE [@ EXCEPT !.total_not_bets = AddU64(@, 1)]]

\* `last_room_entry.get_mut().total_*_bets += 1`
update_last_room_entry(rooms, direction) ==
    [rooms EXCEPT ![LastKey(rooms)] =
        IF direction = "Hot"
        THEN [@ EXCEPT !.total_hot_bets = AddU64(@, 1)]
        ELSE [@ EXCEPT !.total_not_bets = AddU64(@, 1)]]

\* Mutant: the amount is added in the Hot arm only.
update_aggregate_stats_hot_amount_only(stats, amount, direction) ==
    IF direction = "Hot"
    THEN [stats EXCEPT !.total_amount_bet = AddU64(@, amount),
                       !.total_number_of_hot_bets = AddU64(@, 1)]
    ELSE [stats EXCEPT !.total_number_of_not_bets = AddU64(@, 1)]

\* `// * Update aggregate stats`
update_aggregate_stats(stats, amount, direction) ==
    LET added == [stats EXCEPT !.total_amount_bet = AddU64(@, amount)]
    IN  IF direction = "Hot"
        THEN [added EXCEPT !.total_number_of_hot_bets = AddU64(@, 1)]
        ELSE [added EXCEPT !.total_number_of_not_bets = AddU64(@, 1)]

record_bet(h, ongoing_slot, ongoing_room, principal, canister, amount, direction) ==
    LET details == IF h = None THEN HotOrNotDetailsDefault ELSE h[1]
        rooms == IF ongoing_slot \in DOMAIN details.slot_history
                 THEN details.slot_history[ongoing_slot].room_details
                 ELSE SlotDetailsDefault.room_details
        placed == update_bets_made(rooms, ongoing_room, principal, canister,
                                   amount, direction)
    IN  Some([aggregate_stats |->
                  update_aggregate_stats(details.aggregate_stats, amount, direction),
              slot_history |->
                  Insert(details.slot_history, ongoing_slot,
                         [room_details |->
                              update_last_room_entry(placed, direction)])])

\* Mutant: the returned status is read from the first slot of slot_history.
status_after_bet_of_first_slot(h, started) ==
    LET slot_history == h[1].slot_history
        first_slot == CHOOSE k \in DOMAIN slot_history :
                          \A j \in DOMAIN slot_history : k <= j
        rooms == slot_history[first_slot].room_details
    IN  BettingOpen(started,
                    AsU8(Cardinality(DOMAIN rooms[LastKey(rooms)].bets_made)),
                    first_slot, LastKey(rooms), Some(TRUE))

\* the BettingStatus a successful place_hot_or_not_bet returns, read from the
\* last slot of slot_history and its last room
status_after_bet(h, started) ==
    LET slot_history == h[1].slot_history
        last_slot == LastKey(slot_history)
        rooms == slot_history[last_slot].room_details
    IN  BettingOpen(started,
                    AsU8(Cardinality(DOMAIN rooms[LastKey(rooms)].bets_made)),
                    last_slot, LastKey(rooms), Some(TRUE))

\* Mutant: a bet of amount zero is refused.
place_hot_or_not_bet_refuses_zero(h, started, principal, canister, amount, direction, secs) ==
    IF principal = Anonymous
    THEN [post |-> h, result |-> Err("UserNotLoggedIn")]
    ELSE IF amount = 0
    THEN [post |-> h, result |-> Err("BettingClosed")]
    ELSE LET betting_status ==
                 get_hot_or_not_betting_status_for_this_post(
                     h, started, secs, principal)
         IN  CASE betting_status.tag = "Panic" ->
                    [post |-> h, result |-> Panic]
               [] betting_status.tag = "BettingClosed" ->
                    [post |-> h, result |-> Err("BettingClosed")]
               [] OTHER ->
                    IF betting_status.has_this_user_participated_in_this_post[1]
                    THEN [post |-> h,
                          result |-> Err("UserAlreadyParticipatedInThisPost")]
                    ELSE LET after == record_bet(h, betting_status.ongoing_slot,
                                          betting_status.ongoing_room,
                                          principal, canister, amount, direction)
                         IN  [post |-> after,
                              result |-> [tag |-> "Ok",
                                          status |-> status_after_bet(after, started)]]

\* Mutant: hot_or_not_details is taken, and defaulted, before the window is
\* tested.
place_hot_or_not_bet_takes_details_first(h, started, principal, canister, amount, direction, secs) ==
    IF principal = Anonymous
    THEN [post |-> h, result |-> Err("UserNotLoggedIn")]
    ELSE LET betting_status ==
                 get_hot_or_not_betting_status_for_this_post(
                     h, started, secs, principal)
         IN  CASE betting_status.tag = "Panic" ->
                    [post |-> h, result |-> Panic]
               [] betting_status.tag = "BettingClosed" ->
                    [post |-> IF h = None THEN Some(HotOrNotDetailsDefault) ELSE h,
                     result |-> Err("BettingClosed")]
               [] OTHER ->
                    IF betting_status.has_this_user_participated_in_this_post[1]
                    THEN [post |-> h,
                          result |-> Err("UserAlreadyParticipatedInThisPost")]
                    ELSE LET after == record_bet(h, betting_status.ongoing_slot,
                                          betting_status.ongoing_room,
                                          principal, canister, amount, direction)
                         IN  [post |-> after,
                              result |-> [tag |-> "Ok",
                                          status |-> status_after_bet(after, started)]]

\* Mutant: the participation test comes before the closed-window test.
place_hot_or_not_bet_participation_first(h, started, principal, canister, amount, direction, secs) ==
    IF principal = Anonymous
    THEN [post |-> h, result |-> Err("UserNotLoggedIn")]
    ELSE IF h # None /\ has_this_principal_already_bet_on_this_post(h, principal)
    THEN [post |-> h, result |-> Err("UserAlreadyParticipatedInThisPost")]
    ELSE LET betting_status ==
                 get_hot_or_not_betting_status_for_this_post(
                     h, started, secs, principal)
         IN  CASE betting_status.tag = "Panic" ->
                    [post |-> h, result |-> Panic]
               [] betting_status.tag = "BettingClosed" ->
                    [post |-> h, result |-> Err("BettingClosed")]
               [] OTHER ->
                    LET after == record_bet(h, betting_status.ongoing_slot,
                                     betting_status.ongoing_room,
                                     principal, canister, amount, direction)
                    IN  [post |-> after,
                         result |-> [tag |-> "Ok",
                                     status |-> status_after_bet(after, started)]]

(***************************************************************************)
(* Post::place_hot_or_not_bet: the pair of the post state after the call   *)
(* and the value the call returns.                                         *)
(***************************************************************************)
place_hot_or_not_bet(h, started, principal, canister, amount, direction, secs) ==
    IF principal = Anonymous
    THEN [post |-> h, result |-> Err("UserNotLoggedIn")]
    ELSE LET betting_status ==
                 get_hot_or_not_betting_status_for_this_post(
                     h, started, secs, principal)
         IN  CASE betting_status.tag = "Panic" ->
                    [post |-> h, result |-> Panic]
               [] betting_status.tag = "BettingClosed" ->
                    [post |-> h, result |-> Err("BettingClosed")]
               [] OTHER ->
                    IF betting_status.has_this_user_participated_in_this_post[1]
                    THEN [post |-> h,
                          result |-> Err("UserAlreadyParticipatedInThisPost")]
                    ELSE LET after == record_bet(h, betting_status.ongoing_slot,
                                          betting_status.ongoing_room,
                                          principal, canister, amount, direction)
                         IN  [post |-> after,
                              result |-> [tag |-> "Ok",
                                          status |-> status_after_bet(after, started)]]

(***************************************************************************)
(* Post::tabulate_hot_or_not_outcome_for_slot.                             *)
(***************************************************************************)
\* Mutant: equal counters decide the room for Hot.
decided_outcome_tie_is_hot(room_detail) ==
    IF room_detail.total_hot_bets >= room_detail.total_not_bets THEN "HotWon"
    ELSE "NotWon"

\* `match room_detail.total_hot_bets.cmp(&room_detail.total_not_bets)`
decided_outcome(room_detail) ==
    IF room_detail.total_hot_bets > room_detail.total_not_bets THEN "HotWon"
    ELSE IF room_detail.total_hot_bets < room_detail.total_not_bets THEN "NotWon"
    ELSE "Draw"

\* Mutant: the division by 100 comes before the multiplications.
winner_payout_divides_first(amount) ==
    (amount \div 100) * HOT_OR_NOT_BET_WINNINGS_MULTIPLIER
        * (100 - HOT_OR_NOT_BET_CREATOR_COMMISSION_PERCENTAGE)

\* Mutant: a winner gets the whole multiple, without the commission taken off.
winner_payout_without_commission(amount) ==
    amount * HOT_OR_NOT_BET_WINNINGS_MULTIPLIER

\* amount * HOT_OR_NOT_BET_WINNINGS_MULTIPLIER * (100 - COMMISSION) / 100
winner_payout(amount) ==
    (amount * HOT_OR_NOT_BET_WINNINGS_MULTIPLIER
        * (100 - HOT_OR_NOT_BET_CREATOR_COMMISSION_PERCENTAGE)) \div 100

\* Mutant: the refund of a draw is rounded up instead of truncated.
draw_payout_rounds_up(amount) ==
    ((amount * (100 - HOT_OR_NOT_BET_CREATOR_COMMISSION_PERCENTAGE)) + 99) \div 100

\* Mutant: a draw hands the stake back whole.
draw_payout_returns_stake(amount) == amount

\* amount * (100 - COMMISSION) / 100
draw_payout(amount) ==
    (amount * (100 - HOT_OR_NOT_BET_CREATOR_COMMISSION_PERCENTAGE)) \div 100

\* `match &room_detail.bet_outcome` for one bet
bet_payout(bet_outcome, bet_details) ==
    CASE bet_outcome = "HotWon" ->
           IF bet_details.bet_direction = "Hot"
           THEN Calculated(winner_payout(bet_details.amount))
           ELSE Calculated(0)
      [] bet_outcome = "NotWon" ->
           IF bet_details.bet_direction = "Not"
           THEN Calculated(winner_payout(bet_details.amount))
           ELSE Calculated(0)
      [] bet_outcome = "Draw" ->
           Calculated(draw_payout(bet_details.amount))
      [] OTHER -> bet_details.payout

\* Mutant: a room is decided afresh by every tabulation of its slot.
tabulate_room_decides_again(room_detail) ==
    LET outcome == decided_outcome(room_detail)
    IN  [room_detail EXCEPT
           !.bet_outcome = outcome,
           !.bets_made = [p \in DOMAIN room_detail.bets_made |->
                            [room_detail.bets_made[p] EXCEPT
                               !.payout = bet_payout(outcome,
                                            room_detail.bets_made[p])]]]

\* Mutant: the room is settled but its bet_outcome stays BetOngoing.
tabulate_room_keeps_ongoing(room_detail) ==
    IF room_detail.bet_outcome = "BetOngoing"
    THEN LET outcome == decided_outcome(room_detail)
         IN  [room_detail EXCEPT
                !.bets_made = [p \in DOMAIN room_detail.bets_made |->
                                 [room_detail.bets_made[p] EXCEPT
                                    !.payout = bet_payout(outcome,
                                                 room_detail.bets_made[p])]]]
    ELSE room_detail

\* Mutant: deciding a room also empties its pot.
tabulate_room_empties_pot(room_detail) ==
    IF room_detail.bet_outcome = "BetOngoing"
    THEN LET outcome == decided_outcome(room_detail)
         IN  [room_detail EXCEPT
                !.bet_outcome = outcome,
                !.room_bets_total_pot = 0,
                !.bets_made = [p \in DOMAIN room_detail.bets_made |->
                                 [room_detail.bets_made[p] EXCEPT
                                    !.payout = bet_payout(outcome,
                                                 room_detail.bets_made[p])]]]
    ELSE room_detail

\* Mutant: settling a bet also sets its amount to zero.
tabulate_room_zeroes_amounts(room_detail) ==
    IF room_detail.bet_outcome = "BetOngoing"
    THEN LET outcome == decided_outcome(room_detail)
         IN  [room_detail EXCEPT
                !.bet_outcome = outcome,
                !.bets_made = [p \in DOMAIN room_detail.bets_made |->
                                 [room_detail.bets_made[p] EXCEPT
                                    !.payout = bet_payout(outcome,
                                                 room_detail.bets_made[p]),
                                    !.amount = 0]]]
    ELSE room_detail

\* the body of the closure over (room_id, room_detail): the room afterwards
tabulate_room(room_detail) ==
    IF room_detail.bet_outcome = "BetOngoing"
    THEN LET outcome == decided_outcome(room_detail)
         IN  [room_detail EXCEPT
                !.bet_outcome = outcome,
                !.bets_made = [p \in DOMAIN room_detail.bets_made |->
                                 [room_detail.bets_made[p] EXCEPT
                                    !.payout = bet_payout(outcome,
                                                 room_detail.bets_made[p])]]]
    ELSE room_detail

\* Mutant: the commission divides the pot by 100 before multiplying.
commission_event_divides_first(room_detail, post_canister_id, post_id, slot_id, room_id, now) ==
    [amount |-> (room_detail.room_bets_total_pot \div 100)
                    * HOT_OR_NOT_BET_CREATOR_COMMISSION_PERCENTAGE,
     details |-> [post_canister_id |-> post_canister_id, post_id |-> post_id,
                  slot_id |-> slot_id, room_id |-> room_id,
                  room_pot_total_amount |-> room_detail.room_bets_total_pot],
     timestamp |-> now]

\* TokenEvent::HotOrNotOutcomePayout for one room
commission_event(room_detail, post_canister_id, post_id, slot_id, room_id, now) ==
    [amount |-> (room_detail.room_bets_total_pot
                    * HOT_OR_NOT_BET_CREATOR_COMMISSION_PERCENTAGE) \div 100,
     details |-> [post_canister_id |-> post_canister_id, post_id |-> post_id,
                  slot_id |-> slot_id, room_id |-> room_id,
                  room_pot_total_amount |-> room_detail.room_bets_total_pot],
     timestamp |-> now]

\* Mutant: an event is emitted for every room, decided before or not.
RECURSIVE commission_events_for_every_room(_, _, _, _, _, _)
commission_events_for_every_room(rooms, left, post_canister_id, post_id, slot_id, now) ==
    IF left = {}
    THEN <<>>
    ELSE LET room_id == CHOOSE k \in left : \A j \in left : k <= j
         IN  <<commission_event(rooms[room_id], post_canister_id, post_id,
                                slot_id, room_id, now)>>
             \o commission_events_for_every_room(rooms, left \ {room_id},
                    post_canister_id, post_id, slot_id, now)

\* Mutant: the rooms are visited from the highest id down.
RECURSIVE commission_events_descending(_, _, _, _, _, _)
commission_events_descending(rooms, left, post_canister_id, post_id, slot_id, now) ==
    IF left = {}
    THEN <<>>
    ELSE LET room_id == CHOOSE k \in left : \A j \in left : k >= j
             rest == commission_events_descending(rooms, left \ {room_id},
                         post_canister_id, post_id, slot_id, now)
         IN  IF rooms[room_id].bet_outcome = "BetOngoing"
             THEN <<commission_event(rooms[room_id], post_canister_id, post_id,
                                     slot_id, room_id, now)>> \o rest
             ELSE rest

\* the events of iter_mut().for_each over the rooms, in ascending key order,
\* for the room ids in `left`
RECURSIVE commission_events(_, _, _, _, _, _)
commission_events(rooms, left, post_canister_id, post_id, slot_id, now) ==
    IF left = {}
    THEN <<>>
    ELSE LET room_id == CHOOSE k \in left : \A j \in left : k <= j
             rest == commission_events(rooms, left \ {room_id},
                                       post_canister_id, post_id, slot_id, now)
         IN  IF rooms[room_id].bet_outcome = "BetOngoing"
             THEN <<commission_event(rooms[room_id], post_canister_id, post_id,
                                     slot_id, room_id, now)>> \o rest
             ELSE rest

\* Mutant: a slot without an entry gets a default entry.
tabulate_hot_or_not_outcome_for_slot_or_default(h, post_id, post_canister_id, slot_id, now) ==
    IF h = None
    THEN [post |-> h, events |-> <<>>]
    ELSE IF slot_id \notin DOMAIN h[1].slot_history
    THEN [post |-> Some([h[1] EXCEPT !.slot_history =
                            Insert(@, slot_id, SlotDetailsDefault)]),
          events |-> <<>>]
    ELSE LET rooms == h[1].slot_history[slot_id].room_details
         IN  [post |->
                 Some([h[1] EXCEPT !.slot_history[slot_id].room_details =
                         [r \in DOMAIN rooms |-> tabulate_room(rooms[r])]]),
              events |->
                 commission_events(rooms, DOMAIN rooms, post_canister_id,
                                   post_id, slot_id, now)]

\* the pair of the post state after the call and the events handed to
\* token_balance.handle_token_event, in order
tabulate_hot_or_not_outcome_for_slot(h, post_id, post_canister_id, slot_id, now) ==
    IF h = None
    THEN [post |-> h, events |-> <<>>]
    ELSE IF slot_id \notin DOMAIN h[1].slot_history
    THEN [post |-> h, events |-> <<>>]
    ELSE LET rooms == h[1].slot_history[slot_id].room_details
         IN  [post |->
                 Some([h[1] EXCEPT !.slot_history[slot_id].room_details =
                         [r \in DOMAIN rooms |-> tabulate_room(rooms[r])]]),
              events |->
                 commission_events(rooms, DOMAIN rooms, post_canister_id,
                                   post_id, slot_id, now)]

\* TokenBalance::handle_token_event, once per event: the transaction history
handle_token_events(balance, events) == balance \o events

(***************************************************************************)
(* Views of the post state.                                                *)
(***************************************************************************)
\* the post state, an absent one read as the default
Details ==
    IF hot_or_not_details = None THEN HotOrNotDetailsDefault
    ELSE hot_or_not_details[1]

\* the (slot, room) pairs of the post
RoomKeys ==
    UNION {{<<s, r>> : r \in DOMAIN Details.slot_history[s].room_details} :
              s \in DOMAIN Details.slot_history}

RoomAt(sr) == Details.slot_history[sr[1]].room_details[sr[2]]

\* every principal of the model that is not anonymous
AllBetMakers == OpeningPrincipals \cup BetMakers

\* the principal is the key of a bet in some room of some slot
HasABet(p) == \E sr \in RoomKeys : p \in DOMAIN RoomAt(sr).bets_made

(***************************************************************************)
(* Initial state: a post as constructed, with hot_or_not_details either    *)
(* None or Some(default) (Post::new decides from the creator's consent).   *)
(***************************************************************************)
NoCall == [op |-> "none"]

\* MemoryId::new(0), MemoryId::new(1), MemoryId::new(2)
UPGRADES == 0

STABLE_ROOM_DETAILS == 1

STABLE_BET_DETAILS == 2

MemoryIds == {UPGRADES, STABLE_ROOM_DETAILS, STABLE_BET_DETAILS}

\* MemoryManager::init(DefaultMemoryImpl::default()): every memory is empty
MemoryManagerInit == [m \in MemoryIds |-> <<>>]

Init ==
    /\ id = 0
    /\ created_at = 0
    /\ hot_or_not_details \in {None, Some(HotOrNotDetailsDefault)}
    /\ token_balance = <<>>
    /\ ret = NoCall
    /\ opening = 0
    /\ memory_manager = MemoryManagerInit

(***************************************************************************)
(* Operations.  To reach full rooms within the bounds, a run may open with *)
(* up to MaxOpeningBets calls of place_hot_or_not_bet at elapsed 0, by the *)
(* principals 1, 2, ... in turn (OpeningBet); `opening` counts them.  The  *)
(* opening stops after one bet, at a nearly full room, at a full room or   *)
(* at a spilled room (OpeningStops); the other calls come before it or     *)
(* after it has stopped.                                                   *)
(***************************************************************************)
opening_amount(p) == IF p % 3 = 0 THEN 10 ELSE IF p % 3 = 1 THEN 50 ELSE 100

opening_direction(p) == IF p % 2 = 1 THEN "Hot" ELSE "Not"

OpeningStops == {0, 1} \cup ((MaxOpeningBets - 2) .. MaxOpeningBets)

OpeningBet ==
    /\ opening < MaxOpeningBets
    /\ IF opening = 0
       THEN ret = NoCall /\ hot_or_not_details # None
       ELSE ret.op = "place_bet" /\ ret.principal = opening
    /\ LET principal == opening + 1
           call == place_hot_or_not_bet(hot_or_not_details, created_at,
                       principal, CanisterOf(principal),
                       opening_amount(principal),
                       opening_direction(principal), 0)
       IN  /\ hot_or_not_details' = call.post
           /\ ret' = [op |-> "place_bet", principal |-> principal,
                      secs |-> 0, result |-> call.result]
    /\ opening' = opening + 1
    /\ UNCHANGED <<id, created_at, token_balance, memory_manager>>

\* The code only compares principals for equality, so the bet makers are
\* interchangeable: they come forward in the order of their ids, a bet maker
\* calling only once its predecessor has a bet on the post.
HasComeForward(principal) ==
    \/ principal \notin BetMakers
    \/ principal - 1 \notin BetMakers
    \/ HasABet(principal - 1)

GetStatus ==
    /\ opening \in OpeningStops
    /\ \E principal \in Principals, secs \in ElapsedTimes :
        /\ HasComeForward(principal)
        /\ ret' = [op |-> "get_status", principal |-> principal, secs |-> secs,
                   result |-> get_hot_or_not_betting_status_for_this_post(
                                  hot_or_not_details, created_at, secs, principal)]
    /\ UNCHANGED <<id, created_at, hot_or_not_details, token_balance, opening,
                   memory_manager>>

PlaceBet ==
    /\ opening \in OpeningStops
    /\ \E principal \in Principals, secs \in ElapsedTimes,
          amount \in Amounts, direction \in Directions :
        /\ HasComeForward(principal)
        /\ LET call == place_hot_or_not_bet(hot_or_not_details, created_at,
                        principal, CanisterOf(principal), amount, direction, secs)
           IN  /\ hot_or_not_details' = call.post
               /\ ret' = [op |-> "place_bet", principal |-> principal,
                          secs |-> secs, result |-> call.result]
    /\ UNCHANGED <<id, created_at, token_balance, opening, memory_manager>>

TabulateSlot ==
    /\ opening \in OpeningStops
    /\ \E post_canister_id \in PostCanisterIds, slot_id \in TabulatedSlots,
          now \in TabulationTimes :
        LET call == tabulate_hot_or_not_outcome_for_slot(
                        hot_or_not_details, id, post_canister_id, slot_id, now)
        IN  /\ hot_or_not_details' = call.post
            /\ token_balance' = handle_token_events(token_balance, call.events)
            /\ ret' = [op |-> "tabulate_slot", slot_id |-> slot_id,
                       secs |-> now, events |-> call.events]
    /\ UNCHANGED <<id, created_at, opening, memory_manager>>

Next == OpeningBet \/ GetStatus \/ PlaceBet \/ TabulateSlot

Spec == Init /\ [][Next]_vars

(***************************************************************************)
(* A second specification of the same operations, for rooms of a few bets  *)
(* of several amounts: no opening, and place_hot_or_not_bet called by a    *)
(* few principals with amounts 7, 10 and 100 in the first slot.           *)
(* get_status takes &self and is left out of it.                           *)
(***************************************************************************)
\* principals that place the bets of the small rooms
NumSmallBetMakers == 3

SmallBetMakers == 1 .. NumSmallBetMakers

SmallAmounts == {7, 10, 100}

SmallElapsedTimes == {0}

\* as HasComeForward: the small bet makers call in the order of their ids
HasComeForwardSmall(principal) ==
    principal = 1 \/ HasABet(principal - 1)

SmallPlaceBet ==
    /\ opening = 0
    /\ \E principal \in SmallBetMakers, secs \in SmallElapsedTimes,
          amount \in SmallAmounts, direction \in Directions :
        /\ HasComeForwardSmall(principal)
        /\ LET call == place_hot_or_not_bet(hot_or_not_details, created_at,
                        principal, CanisterOf(principal), amount, direction, secs)
           IN  /\ hot_or_not_details' = call.post
               /\ ret' = [op |-> "place_bet", principal |-> principal,
                          secs |-> secs, result |-> call.result]
    /\ UNCHANGED <<id, created_at, token_balance, opening, memory_manager>>

SmallNext == SmallPlaceBet \/ TabulateSlot

SmallSpec == Init /\ [][SmallNext]_vars

(***************************************************************************)
(* A third specification, of the host's discipline: now never decreases    *)
(* from one call to the next, and a slot is tabulated only once its window *)
(* has ended.  The elapsed time of the last call is in `ret`.              *)
(***************************************************************************)
\* now - created_at of the calls, in seconds: the start of slots 1 and 48,
\* the last second of the contest and the first second after it
TimedElapsedTimes == {0, 169200, 172800, 172801}

\* the slot ids the host tabulates
TimedSlots == {1, MAXIMUM_NUMBER_OF_SLOTS}

\* the elapsed time of the latest call
Clock == IF ret = NoCall THEN 0 ELSE ret.secs

\* the window of the slot has ended at elapsed time secs
WindowHasEnded(slot_id, secs) ==
    secs >= slot_id * DURATION_OF_EACH_SLOT_IN_SECONDS

TimedPlaceBet ==
    /\ opening = 0
    /\ \E principal \in SmallBetMakers, secs \in TimedElapsedTimes,
          amount \in Amounts, direction \in Directions :
        /\ HasComeForwardSmall(principal)
        /\ secs >= Clock
        /\ LET call == place_hot_or_not_bet(hot_or_not_details, created_at,
                            principal, CanisterOf(principal), amount,
                            direction, secs)
           IN  /\ hot_or_not_details' = call.post
               /\ ret' = [op |-> "place_bet", principal |-> principal,
                          secs |-> secs, result |-> call.result]
    /\ UNCHANGED <<id, created_at, token_balance, opening, memory_manager>>

TimedTabulateSlot ==
    /\ opening = 0
    /\ \E post_canister_id \in PostCanisterIds, slot_id \in TimedSlots,
          now \in TimedElapsedTimes :
        /\ now >= Clock
        /\ WindowHasEnded(slot_id, now)
        /\ LET call == tabulate_hot_or_not_outcome_for_slot(
                            hot_or_not_details, id, post_canister_id, slot_id, now)
           IN  /\ hot_or_not_details' = call.post
               /\ token_balance' = handle_token_events(token_balance, call.events)
               /\ ret' = [op |-> "tabulate_slot", slot_id |-> slot_id,
                          secs |-> now, events |-> call.events]
    /\ UNCHANGED <<id, created_at, opening, memory_manager>>

TimedNext == TimedPlaceBet \/ TimedTabulateSlot

TimedSpec == Init /\ [][TimedNext]_vars

(***************************************************************************)
(* Sums used by the properties.                                            *)
(***************************************************************************)
\* the sum of f[k] over the keys k of f in lo .. hi (by halving)
RECURSIVE SumOver(_, _, _)
SumOver(f, lo, hi) ==
    IF lo > hi THEN 0
    ELSE IF lo = hi THEN (IF lo \in DOMAIN f THEN f[lo] ELSE 0)
    ELSE LET mid == (lo + hi) \div 2
         IN  SumOver(f, lo, mid) + SumOver(f, mid + 1, hi)

\* the sum of the amounts of the bets of a room
SumOfAmounts(room) ==
    SumOver([p \in DOMAIN room.bets_made |-> room.bets_made[p].amount],
            1, MaxOpeningBets + NumBetMakers)

\* the sum of g[sr] over a set of (slot, room) pairs
RECURSIVE SumOverRooms(_, _)
SumOverRooms(keys, g) ==
    IF keys = {} THEN 0
    ELSE LET sr == CHOOSE x \in keys : TRUE
         IN  g[sr] + SumOverRooms(keys \ {sr}, g)

BetsIn(room, direction) ==
    {p \in DOMAIN room.bets_made : room.bets_made[p].bet_direction = direction}

AmountOfRoom == [sr \in RoomKeys |-> SumOfAmounts(RoomAt(sr))]

HotBetsOfRoom == [sr \in RoomKeys |-> RoomAt(sr).total_hot_bets]

NotBetsOfRoom == [sr \in RoomKeys |-> RoomAt(sr).total_not_bets]

(***************************************************************************)
(* C1.  After any sequence of place_bet and tabulate_slot calls, the       *)
(* aggregate total_amount_bet is the sum of the amounts of all bets in all *)
(* rooms of all slots, and the aggregate hot and not counters are the sums *)
(* of the rooms' total_hot_bets and total_not_bets.                        *)
(***************************************************************************)
C1_AggregateStatsAreSums ==
    /\ Details.aggregate_stats.total_amount_bet
           = SumOverRooms(RoomKeys, AmountOfRoom)
    /\ Details.aggregate_stats.total_number_of_hot_bets
           = SumOverRooms(RoomKeys, HotBetsOfRoom)
    /\ Details.aggregate_stats.total_number_of_not_bets
           = SumOverRooms(RoomKeys, NotBetsOfRoom)

\* bets of both directions in two slots, and a tabulation that decided a room
C1_Witness ==
    /\ ret.op = "tabulate_slot" /\ ret.events # <<>>
    /\ Cardinality(DOMAIN Details.slot_history) >= 2
    /\ Details.aggregate_stats.total_number_of_hot_bets > 0
    /\ Details.aggregate_stats.total_number_of_not_bets > 0
    /\ Details.aggregate_stats.total_amount_bet > 0

(***************************************************************************)
(* C2.  Every room: room_bets_total_pot is the sum of the amounts of its   *)
(* bets, total_hot_bets counts its Hot bets, total_not_bets its Not bets   *)
(* (so their sum is the number of entries), and it has at most 100 bets.   *)
(***************************************************************************)
C2_RoomTotals ==
    \A sr \in RoomKeys :
        LET room == RoomAt(sr)
        IN  /\ room.room_bets_total_pot = SumOfAmounts(room)
            /\ room.total_hot_bets = Cardinality(BetsIn(room, "Hot"))
            /\ room.total_not_bets = Cardinality(BetsIn(room, "Not"))
            /\ Cardinality(DOMAIN room.bets_made)
                   = room.total_hot_bets + room.total_not_bets
            /\ Cardinality(DOMAIN room.bets_made) <= 100

\* a full room next to the room its 101st bet spilled into
C2_Witness ==
    \E sr \in RoomKeys :
        /\ Cardinality(DOMAIN RoomAt(sr).bets_made) = 100
        /\ <<sr[1], sr[2] + 1>> \in RoomKeys

(***************************************************************************)
(* C3.  A principal is the key of at most one bet entry across all rooms   *)
(* of all slots of the post.                                               *)
(***************************************************************************)
C3_OneBetPerPrincipal ==
    \A p \in AllBetMakers \cup {Anonymous} :
        Cardinality({sr \in RoomKeys : p \in DOMAIN RoomAt(sr).bets_made}) <= 1

\* a principal with a bet has just been refused a second one
C3_Witness ==
    /\ ret.op = "place_bet"
    /\ ret.result = Err("UserAlreadyParticipatedInThisPost")
    /\ HasABet(ret.principal)

(***************************************************************************)
(* C4.  Once a principal has a bet on the post, every further place_bet by *)
(* it inside the contest window returns UserAlreadyParticipatedInThisPost, *)
(* in the slot of its bet and in any other slot, whatever the amount and   *)
(* the direction.                                                          *)
(***************************************************************************)
\* the principals whose further calls are examined in every state
Rebettors == BetMakers \cup {1, MaxOpeningBets}

\* amounts of the further calls
RebetAmounts == Amounts \cup {0, 100}

C4_RebetIsRejected ==
    \A p \in Rebettors, secs \in ElapsedTimes,
       amount \in RebetAmounts, direction \in Directions :
        (HasABet(p) /\ secs <= TOTAL_DURATION_OF_ALL_SLOTS_IN_SECONDS)
        => place_hot_or_not_bet(hot_or_not_details, created_at, p,
                                CanisterOf(p), amount, direction, secs).result
               = Err("UserAlreadyParticipatedInThisPost")

\* a bet maker with a bet in one slot has been refused in another slot
C4_Witness ==
    /\ ret.op = "place_bet"
    /\ ret.result = Err("UserAlreadyParticipatedInThisPost")
    /\ \E sr \in RoomKeys :
         /\ ret.principal \in DOMAIN RoomAt(sr).bets_made
         /\ sr[1] # currently_ongoing_slot(ret.secs)

(***************************************************************************)
(* C5.  A room whose bet_outcome is not BetOngoing is frozen: no call adds *)
(* an entry to its bets_made or changes its room_bets_total_pot,           *)
(* total_hot_bets or total_not_bets, and every bet in it has payout        *)
(* Calculated.                                                             *)
(***************************************************************************)
Decided(sr) == RoomAt(sr).bet_outcome # "BetOngoing"

AllPayoutsCalculated(room) ==
    \A p \in DOMAIN room.bets_made : room.bets_made[p].payout.tag = "Calculated"

C5_DecidedRoomsStayFrozen ==
    \A sr \in RoomKeys :
        Decided(sr) =>
            /\ sr \in RoomKeys'
            /\ DOMAIN RoomAt(sr).bets_made = DOMAIN RoomAt(sr)'.bets_made
            /\ RoomAt(sr).room_bets_total_pot = RoomAt(sr)'.room_bets_total_pot
            /\ RoomAt(sr).total_hot_bets = RoomAt(sr)'.total_hot_bets
            /\ RoomAt(sr).total_not_bets = RoomAt(sr)'.total_not_bets
            /\ AllPayoutsCalculated(RoomAt(sr)')

C5_DecidedRoomsAreFrozen == [][C5_DecidedRoomsStayFrozen]_vars

(***************************************************************************)
(* C6.  Right after tabulate_slot(s) returns, every bet in every room of   *)
(* slot s has payout Calculated, at the first tabulation of s and at every *)
(* later one.                                                              *)
(***************************************************************************)
C6_TabulatedSlotIsSettled ==
    ret.op = "tabulate_slot" =>
        \A sr \in RoomKeys :
            sr[1] = ret.slot_id => AllPayoutsCalculated(RoomAt(sr))

(***************************************************************************)
(* C7.  With elapsed <= 172800 get_status returns BettingOpen and          *)
(* place_bet does not return BettingClosed; with elapsed > 172800          *)
(* get_status returns BettingClosed and place_bet by a principal that is   *)
(* not anonymous returns the error BettingClosed.                          *)
(***************************************************************************)
C7_WindowBoundary ==
    /\ ret.op = "get_status" =>
         IF ret.secs <= 172800
         THEN ret.result.tag = "BettingOpen"
         ELSE ret.result = BettingClosed
    /\ ret.op = "place_bet" =>
         IF ret.secs <= 172800
         THEN ret.result # Err("BettingClosed")
         ELSE ret.principal # Anonymous => ret.result = Err("BettingClosed")

(***************************************************************************)
(* C8.  For elapsed in 0 ..= 172800 the ongoing_slot that get_status       *)
(* reports, and the slot place_bet records the bet in, is                  *)
(* (elapsed / 3600) + 1 clamped to [1, 48].                                *)
(***************************************************************************)
ClampedSlot(secs) ==
    LET slot == (secs \div 3600) + 1
    IN  IF slot < 1 THEN 1 ELSE IF slot > 48 THEN 48 ELSE slot

C8_OngoingSlotIsClamped ==
    /\ (ret.op = "get_status" /\ ret.result.tag = "BettingOpen")
         => ret.result.ongoing_slot = ClampedSlot(ret.secs)
    /\ (ret.op = "place_bet" /\ ret.result.tag = "Ok")
         => \E sr \in RoomKeys :
               /\ sr[1] = ClampedSlot(ret.secs)
               /\ ret.principal \in DOMAIN RoomAt(sr).bets_made

(***************************************************************************)
(* C9.  After any place_bet calls made inside the open window, every key   *)
(* of slot_history lies in 1 .. 48.                                        *)
(***************************************************************************)
C9_SlotKeysInRange == DOMAIN Details.slot_history \subseteq 1 .. 48

(***************************************************************************)
(* C10.  The room ids of every slot are 1 .. k for some k >= 1: the first  *)
(* room of a slot has id 1 and a new room has the id after the highest.    *)
(***************************************************************************)
C10_RoomIdsAreDense ==
    \A s \in DOMAIN Details.slot_history :
        LET ids == DOMAIN Details.slot_history[s].room_details
        IN  ids # {} /\ ids = 1 .. Cardinality(ids)

\* a bet has just opened room 2 of a slot
C10_Witness ==
    /\ ret.op = "place_bet" /\ ret.result.tag = "Ok"
    /\ ret.result.status.ongoing_room = 2
    /\ ret.result.status.number_of_participants = 1
    /\ \E s \in DOMAIN Details.slot_history :
         /\ DOMAIN Details.slot_history[s].room_details = {1, 2}
         /\ ret.principal
              \in DOMAIN Details.slot_history[s].room_details[2].bets_made

(***************************************************************************)
(* C11.  place_bet evaluates its failure modes in a fixed order: an        *)
(* anonymous caller gets UserNotLoggedIn at every elapsed time, also after *)
(* the window has closed; any other caller gets BettingClosed after the    *)
(* window has closed, also when it already has a bet; and                  *)
(* UserAlreadyParticipatedInThisPost is returned only to a caller that is  *)
(* not anonymous, inside the window, and already has a bet.                *)
(***************************************************************************)
C11_FailureModesInOrder ==
    \A p \in Rebettors \cup {Anonymous}, secs \in ElapsedTimes,
       amount \in Amounts, direction \in Directions :
        LET result == place_hot_or_not_bet(hot_or_not_details, created_at, p,
                          CanisterOf(p), amount, direction, secs).result
        IN  /\ p = Anonymous => result = Err("UserNotLoggedIn")
            /\ (p # Anonymous /\ secs > TOTAL_DURATION_OF_ALL_SLOTS_IN_SECONDS)
                 => result = Err("BettingClosed")
            /\ result = Err("UserAlreadyParticipatedInThisPost")
                 => /\ p # Anonymous
                    /\ secs <= TOTAL_DURATION_OF_ALL_SLOTS_IN_SECONDS
                    /\ HasABet(p)

\* a principal with a bet has called after the window closed and was told
\* BettingClosed
C11_Witness ==
    /\ ret.op = "place_bet"
    /\ ret.secs > TOTAL_DURATION_OF_ALL_SLOTS_IN_SECONDS
    /\ HasABet(ret.principal)
    /\ ret.result = Err("BettingClosed")

(***************************************************************************)
(* C12.  Capacity spill.  A successful place_bet whose slot has r as its   *)
(* highest room id puts the bet into r when r holds fewer than 100 bets    *)
(* (the 100th bet still lands in r).  When r holds 100 bets it creates     *)
(* room r + 1 with the new bet as its only entry, room_bets_total_pot =    *)
(* amount and the counter of the bet's direction = 1, and leaves room r    *)
(* unchanged; the call then reports ongoing_room = r + 1 and               *)
(* number_of_participants = 1 (time moving forward: no later slot has a    *)
(* bet).                                                                   *)
(***************************************************************************)
\* the principals whose next call is examined in every state
NextBettors == BetMakers \cup {1, 2, MaxOpeningBets - 1, MaxOpeningBets}

\* the slot of a call at elapsed time secs, as the claims state it
SlotAt(secs) == (secs \div 3600) + 1

\* the greatest element of a non-empty set of ids
Highest(ids) == CHOOSE k \in ids : \A j \in ids : j <= k

\* the room map of a slot in the post state h, empty when there is none
RoomsIn(h, slot) ==
    IF h # None /\ slot \in DOMAIN h[1].slot_history
    THEN h[1].slot_history[slot].room_details
    ELSE <<>>

\* the counter of a room for a direction
CounterOf(room, direction) ==
    IF direction = "Hot" THEN room.total_hot_bets ELSE room.total_not_bets

C12_CapacitySpill ==
    \A p \in NextBettors, secs \in ElapsedTimes,
       amount \in Amounts \cup {100}, direction \in Directions :
        LET call == place_hot_or_not_bet(hot_or_not_details, created_at, p,
                        CanisterOf(p), amount, direction, secs)
            slot == SlotAt(secs)
            before == RoomsIn(hot_or_not_details, slot)
            after == RoomsIn(call.post, slot)
            r == Highest(DOMAIN before)
        IN  (call.result.tag = "Ok" /\ DOMAIN before # {}) =>
              IF Cardinality(DOMAIN before[r].bets_made) < 100
              THEN /\ DOMAIN after = DOMAIN before
                   /\ DOMAIN after[r].bets_made
                          = DOMAIN before[r].bets_made \cup {p}
                   /\ p \notin DOMAIN before[r].bets_made
              ELSE /\ Cardinality(DOMAIN before[r].bets_made) = 100
                   /\ DOMAIN after = DOMAIN before \cup {r + 1}
                   /\ r + 1 \notin DOMAIN before
                   /\ DOMAIN after[r + 1].bets_made = {p}
                   /\ after[r + 1].room_bets_total_pot = amount
                   /\ CounterOf(after[r + 1], direction) = 1
                   /\ after[r] = before[r]
                   /\ slot = Highest(DOMAIN call.post[1].slot_history)
                        => /\ call.result.status.ongoing_room = r + 1
                           /\ call.result.status.number_of_participants = 1

\* a bet has just spilled out of a room of 100 bets into a new room, and
\* before it the 100th bet had landed in the first room
C12_Witness ==
    /\ ret.op = "place_bet" /\ ret.result.tag = "Ok"
    /\ ret.result.status.ongoing_room = 2
    /\ ret.result.status.number_of_participants = 1
    /\ LET rooms == RoomsIn(hot_or_not_details, SlotAt(ret.secs))
       IN  /\ DOMAIN rooms = {1, 2}
           /\ Cardinality(DOMAIN rooms[1].bets_made) = 100
           /\ DOMAIN rooms[2].bets_made = {ret.principal}

(***************************************************************************)
(* C13.  A successful place_bet(P, canister, amount, direction, now) adds  *)
(* exactly one bet entry, keyed by P, in the slot (elapsed / 3600) + 1,    *)
(* holding the given amount, direction and canister and the payout         *)
(* NotCalculatedYet; the receiving room's room_bets_total_pot and the      *)
(* aggregate total_amount_bet grow by amount, the room's and the           *)
(* aggregate's counter of the bet's direction grow by 1, and the counters  *)
(* of the other direction stay as they were.                               *)
(***************************************************************************)
\* the principals whose next call is examined in every state of SmallSpec
SmallCallers == {NumSmallBetMakers, NumSmallBetMakers + 1}

\* the post state h, an absent one read as the default
DetailsOf(h) == IF h = None THEN HotOrNotDetailsDefault ELSE h[1]

\* the (slot, room, principal) keys of the bets of the post state h
BetKeysOf(h) ==
    UNION {UNION {{<<s, r, p>> :
                     p \in DOMAIN DetailsOf(h).slot_history[s].room_details[r].bets_made} :
                  r \in DOMAIN DetailsOf(h).slot_history[s].room_details} :
           s \in DOMAIN DetailsOf(h).slot_history}

\* a room of a room map, an absent one read as the default room
RoomOrDefault(rooms, r) ==
    IF r \in DOMAIN rooms THEN rooms[r] ELSE RoomDetailsDefault

OtherDirection(direction) == IF direction = "Hot" THEN "Not" ELSE "Hot"

\* the aggregate counter for a direction
AggregateCounterOf(stats, direction) ==
    IF direction = "Hot" THEN stats.total_number_of_hot_bets
    ELSE stats.total_number_of_not_bets

C13_SuccessfulBetIsRecorded ==
    \A p \in SmallCallers, secs \in ElapsedTimes,
       amount \in RebetAmounts, direction \in Directions :
        LET call == place_hot_or_not_bet(hot_or_not_details, created_at, p,
                        CanisterOf(p), amount, direction, secs)
            slot == SlotAt(secs)
            before == RoomsIn(hot_or_not_details, slot)
            after == RoomsIn(call.post, slot)
            stats == DetailsOf(hot_or_not_details).aggregate_stats
            stats_after == DetailsOf(call.post).aggregate_stats
        IN  call.result.tag = "Ok" =>
              \E r \in DOMAIN after :
                /\ <<slot, r, p>> \notin BetKeysOf(hot_or_not_details)
                /\ BetKeysOf(call.post)
                     = BetKeysOf(hot_or_not_details) \cup {<<slot, r, p>>}
                /\ after[r].bets_made[p]
                     = [amount |-> amount, bet_direction |-> direction,
                        payout |-> NotCalculatedYet,
                        bet_maker_canister_id |-> CanisterOf(p)]
                /\ after[r].room_bets_total_pot
                     = RoomOrDefault(before, r).room_bets_total_pot + amount
                /\ stats_after.total_amount_bet = stats.total_amount_bet + amount
                /\ CounterOf(after[r], direction)
                     = CounterOf(RoomOrDefault(before, r), direction) + 1
                /\ CounterOf(after[r], OtherDirection(direction))
                     = CounterOf(RoomOrDefault(before, r), OtherDirection(direction))
                /\ AggregateCounterOf(stats_after, direction)
                     = AggregateCounterOf(stats, direction) + 1
                /\ AggregateCounterOf(stats_after, OtherDirection(direction))
                     = AggregateCounterOf(stats, OtherDirection(direction))

\* a Not bet has just been accepted into a room that already held a Hot bet
C13_Witness ==
    /\ ret.op = "place_bet" /\ ret.result.tag = "Ok"
    /\ \E sr \in RoomKeys :
         /\ sr[1] = SlotAt(ret.secs)
         /\ ret.principal \in DOMAIN RoomAt(sr).bets_made
         /\ RoomAt(sr).bets_made[ret.principal].bet_direction = "Not"
         /\ RoomAt(sr).bets_made[ret.principal].payout = NotCalculatedYet
         /\ RoomAt(sr).total_hot_bets >= 1
         /\ RoomAt(sr).total_not_bets = 1

(***************************************************************************)
(* C14.  When tabulate_slot decides a room whose bet_outcome is BetOngoing *)
(* the outcome comes from the counters of that room alone: HotWon when     *)
(* total_hot_bets > total_not_bets, NotWon when total_hot_bets <           *)
(* total_not_bets, Draw when they are equal; each room of the slot is      *)
(* decided on its own.                                                     *)
(***************************************************************************)
C14_OutcomeFromOwnCounters ==
    \A slot_id \in TabulatedSlots, now \in TabulationTimes,
       post_canister_id \in PostCanisterIds :
        LET call == tabulate_hot_or_not_outcome_for_slot(
                        hot_or_not_details, id, post_canister_id, slot_id, now)
            before == RoomsIn(hot_or_not_details, slot_id)
            after == RoomsIn(call.post, slot_id)
        IN  \A r \in DOMAIN before :
              before[r].bet_outcome = "BetOngoing" =>
                /\ r \in DOMAIN after
                /\ after[r].bet_outcome =
                     IF before[r].total_hot_bets > before[r].total_not_bets
                     THEN "HotWon"
                     ELSE IF before[r].total_hot_bets < before[r].total_not_bets
                     THEN "NotWon"
                     ELSE "Draw"

\* one tabulation has just decided a full room of 50 Hot and 50 Not bets as
\* Draw and the room after it, of a single bet, as NotWon
C14_Witness ==
    /\ ret.op = "tabulate_slot" /\ Len(ret.events) = 2
    /\ LET rooms == RoomsIn(hot_or_not_details, ret.slot_id)
       IN  /\ DOMAIN rooms = {1, 2}
           /\ rooms[1].total_hot_bets = rooms[1].total_not_bets
           /\ rooms[1].bet_outcome = "Draw"
           /\ rooms[2].total_hot_bets < rooms[2].total_not_bets
           /\ rooms[2].bet_outcome = "NotWon"

(***************************************************************************)
(* C15.  In a room that tabulate_slot decides HotWon or NotWon, every bet  *)
(* on the winning side gets the payout Calculated((amount * 2 * 90) / 100) *)
(* (the multiplications first, then one truncating division: 100 -> 180,   *)
(* 10 -> 18, 7 -> 12) and every bet on the losing side gets Calculated(0). *)
(***************************************************************************)
\* the direction that wins a decided room, none for a draw
WinningDirection(bet_outcome) ==
    IF bet_outcome = "HotWon" THEN "Hot"
    ELSE IF bet_outcome = "NotWon" THEN "Not" ELSE "none"

C15_WinnersAndLosers ==
    \A slot_id \in TabulatedSlots, now \in TabulationTimes,
       post_canister_id \in PostCanisterIds :
        LET call == tabulate_hot_or_not_outcome_for_slot(
                        hot_or_not_details, id, post_canister_id, slot_id, now)
            before == RoomsIn(hot_or_not_details, slot_id)
            after == RoomsIn(call.post, slot_id)
        IN  \A r \in DOMAIN before :
              (/\ before[r].bet_outcome = "BetOngoing"
               /\ after[r].bet_outcome \in {"HotWon", "NotWon"}) =>
                /\ DOMAIN after[r].bets_made = DOMAIN before[r].bets_made
                /\ \A p \in DOMAIN before[r].bets_made :
                     after[r].bets_made[p].payout =
                       IF before[r].bets_made[p].bet_direction
                            = WinningDirection(after[r].bet_outcome)
                       THEN [tag |-> "Calculated",
                             value |-> (before[r].bets_made[p].amount * 2 * 90)
                                           \div 100]
                       ELSE [tag |-> "Calculated", value |-> 0]

\* a tabulation has just decided a room NotWon: its Hot bet got 0, a Not bet
\* of 7 got 12 and a Not bet of 100 got 180
C15_Witness ==
    /\ ret.op = "tabulate_slot" /\ ret.events # <<>>
    /\ \E r \in DOMAIN RoomsIn(hot_or_not_details, ret.slot_id) :
         LET room == RoomsIn(hot_or_not_details, ret.slot_id)[r]
         IN  /\ room.bet_outcome = "NotWon"
             /\ \E p \in DOMAIN room.bets_made :
                  /\ room.bets_made[p].bet_direction = "Hot"
                  /\ room.bets_made[p].payout = Calculated(0)
             /\ \E p \in DOMAIN room.bets_made :
                  /\ room.bets_made[p].bet_direction = "Not"
                  /\ room.bets_made[p].amount = 7
                  /\ room.bets_made[p].payout = Calculated(12)
             /\ \E p \in DOMAIN room.bets_made :
                  /\ room.bets_made[p].bet_direction = "Not"
                  /\ room.bets_made[p].amount = 100
                  /\ room.bets_made[p].payout = Calculated(180)

(***************************************************************************)
(* C16.  In a room that tabulate_slot decides Draw, every bet gets the     *)
(* payout Calculated((amount * 90) / 100), the division truncating         *)
(* (100 -> 90, 10 -> 9, 7 -> 6).                                           *)
(***************************************************************************)
C16_DrawRefund ==
    \A slot_id \in TabulatedSlots, now \in TabulationTimes,
       post_canister_id \in PostCanisterIds :
        LET call == tabulate_hot_or_not_outcome_for_slot(
                        hot_or_not_details, id, post_canister_id, slot_id, now)
            before == RoomsIn(hot_or_not_details, slot_id)
            after == RoomsIn(call.post, slot_id)
        IN  \A r \in DOMAIN before :
              (/\ before[r].bet_outcome = "BetOngoing"
               /\ after[r].bet_outcome = "Draw") =>
                /\ DOMAIN after[r].bets_made = DOMAIN before[r].bets_made
                /\ \A p \in DOMAIN before[r].bets_made :
                     after[r].bets_made[p].payout =
                       [tag |-> "Calculated",
                        value |-> (before[r].bets_made[p].amount * 90) \div 100]

\* a tabulation has just decided a room of one Hot and one Not bet Draw: the
\* bet of 7 got 6 and the bet of 100 got 90
C16_Witness ==
    /\ ret.op = "tabulate_slot" /\ ret.events # <<>>
    /\ \E r \in DOMAIN RoomsIn(hot_or_not_details, ret.slot_id) :
         LET room == RoomsIn(hot_or_not_details, ret.slot_id)[r]
         IN  /\ room.bet_outcome = "Draw"
             /\ room.total_hot_bets = 1 /\ room.total_not_bets = 1
             /\ \E p \in DOMAIN room.bets_made :
                  /\ room.bets_made[p].amount = 7
                  /\ room.bets_made[p].payout = Calculated(6)
             /\ \E p \in DOMAIN room.bets_made :
                  /\ room.bets_made[p].amount = 100
                  /\ room.bets_made[p].payout = Calculated(90)

(***************************************************************************)
(* C17.  For each room that a tabulate_slot call decides, whether or not   *)
(* anyone won, exactly one HotOrNotOutcomePayout event goes to the token   *)
(* balance: its amount is (room_bets_total_pot * 10) / 100 truncated, its  *)
(* timestamp the `now` of the call, and its details the post_canister_id   *)
(* of the call, the id of the post, the slot_id of the call, the id of     *)
(* the room and, as room_pot_total_amount, the pot of the room.            *)
(***************************************************************************)
\* times of the tabulations examined in every state
CommissionTimes == TabulationTimes \cup {TOTAL_DURATION_OF_ALL_SLOTS_IN_SECONDS + 1}

\* post canisters of the tabulations examined in every state
CommissionCanisters == PostCanisterIds \cup {"another_canister"}

\* the positions of the events of a room in a sequence of events
EventsOfRoom(events, r) ==
    {i \in 1 .. Len(events) : events[i].details.room_id = r}

C17_OneCommissionEventPerRoom ==
    /\ \A slot_id \in TabulatedSlots, now \in CommissionTimes,
          post_canister_id \in CommissionCanisters :
         LET call == tabulate_hot_or_not_outcome_for_slot(
                         hot_or_not_details, id, post_canister_id, slot_id, now)
             before == RoomsIn(hot_or_not_details, slot_id)
         IN  \A r \in DOMAIN before :
               before[r].bet_outcome = "BetOngoing" =>
                 /\ Cardinality(EventsOfRoom(call.events, r)) = 1
                 /\ \A i \in EventsOfRoom(call.events, r) :
                      call.events[i] =
                        [amount |-> (before[r].room_bets_total_pot * 10) \div 100,
                         details |->
                           [post_canister_id |-> post_canister_id,
                            post_id |-> id,
                            slot_id |-> slot_id,
                            room_id |-> r,
                            room_pot_total_amount |->
                                before[r].room_bets_total_pot],
                         timestamp |-> now]
    \* the events of the last call are the last entries of the token balance
    /\ ret.op = "tabulate_slot" =>
         /\ Len(token_balance) >= Len(ret.events)
         /\ SubSeq(token_balance,
                   Len(token_balance) - Len(ret.events) + 1,
                   Len(token_balance)) = ret.events

\* a tabulation has just decided a room with the pot 117 (bets of 7, 10 and
\* 100): the token balance ends with its event, of amount 11
C17_Witness ==
    /\ ret.op = "tabulate_slot" /\ Len(ret.events) = 1
    /\ ret.events[1].amount = 11
    /\ ret.events[1].details.room_pot_total_amount = 117
    /\ ret.events[1].details.slot_id = ret.slot_id
    /\ ret.events[1].timestamp = ret.secs
    /\ token_balance # <<>>
    /\ token_balance[Len(token_balance)] = ret.events[1]
    /\ RoomsIn(hot_or_not_details, ret.slot_id)[1].bet_outcome # "BetOngoing"

(***************************************************************************)
(* C18.  Within one tabulate_slot call the rooms are processed in          *)
(* ascending room_id order, and the commission events reach the token      *)
(* balance in that order.                                                  *)
(***************************************************************************)
\* the room ids of a sequence of events increase along the sequence
AscendingRoomIds(events) ==
    \A i, j \in 1 .. Len(events) :
        i < j => events[i].details.room_id < events[j].details.room_id

C18_EventsInRoomOrder ==
    ret.op = "tabulate_slot" =>
        /\ AscendingRoomIds(ret.events)
        /\ Len(token_balance) >= Len(ret.events)
        /\ AscendingRoomIds(SubSeq(token_balance,
                                   Len(token_balance) - Len(ret.events) + 1,
                                   Len(token_balance)))
        /\ \A i \in 1 .. Len(ret.events) :
             token_balance[Len(token_balance) - Len(ret.events) + i].details.slot_id
                 = ret.slot_id

\* a tabulation has just decided the two rooms of a slot: the token balance
\* ends with the event of room 1 followed by the event of room 2
C18_Witness ==
    /\ ret.op = "tabulate_slot" /\ Len(ret.events) = 2
    /\ Len(token_balance) >= 2
    /\ token_balance[Len(token_balance) - 1].details.room_id = 1
    /\ token_balance[Len(token_balance)].details.room_id = 2
    /\ DOMAIN RoomsIn(hot_or_not_details, ret.slot_id) = {1, 2}

(***************************************************************************)
(* C19.  tabulate_slot is total: when hot_or_not_details is absent, or     *)
(* slot_history has no entry for slot_id, the call returns normally,       *)
(* changes nothing in the post and hands no event to the token balance.    *)
(***************************************************************************)
\* slot ids of the tabulations examined in every state, the ends of u8 too
AnySlotIds == TabulatedSlots \cup {0, 255}

C19_TabulateIsTotal ==
    /\ \A slot_id \in AnySlotIds, now \in CommissionTimes,
          post_canister_id \in CommissionCanisters :
         LET call == tabulate_hot_or_not_outcome_for_slot(
                         hot_or_not_details, id, post_canister_id, slot_id, now)
         IN  (\/ hot_or_not_details = None
              \/ slot_id \notin DOMAIN hot_or_not_details[1].slot_history)
             => /\ call.post = hot_or_not_details
                /\ call.events = <<>>
                /\ handle_token_events(token_balance, call.events) = token_balance
    \* the last call, when it was for a slot without an entry
    /\ (/\ ret.op = "tabulate_slot"
        /\ ret.slot_id \notin DOMAIN Details.slot_history)
       => ret.events = <<>>

\* a post with bets in slot 1 has just been through the tabulation of a slot
\* it has no entry for: no event, and its room is still BetOngoing
C19_Witness ==
    /\ ret.op = "tabulate_slot" /\ ret.events = <<>>
    /\ hot_or_not_details # None
    /\ ret.slot_id \notin DOMAIN Details.slot_history
    /\ 1 \in DOMAIN Details.slot_history
    /\ Details.slot_history[1].room_details[1].bet_outcome = "BetOngoing"
    /\ token_balance = <<>>

(***************************************************************************)
(* C20.  When the window is open, get_status reports as ongoing_room the   *)
(* greatest room id of the current slot (1 when the slot has no rooms or   *)
(* no entry) and as number_of_participants the number of bets in that room *)
(* (0 when there is none); a room of 100 bets is still reported as the     *)
(* ongoing room, with 100 participants, until a bet creates the next room. *)
(***************************************************************************)
C20_OngoingRoomAndParticipants ==
    (ret.op = "get_status"
        /\ ret.secs <= TOTAL_DURATION_OF_ALL_SLOTS_IN_SECONDS) =>
      LET rooms == RoomsIn(hot_or_not_details, SlotAt(ret.secs))
      IN  /\ ret.result.tag = "BettingOpen"
          /\ ret.result.ongoing_room =
               IF DOMAIN rooms = {} THEN 1 ELSE Highest(DOMAIN rooms)
          /\ ret.result.number_of_participants =
               IF DOMAIN rooms = {} THEN 0
               ELSE Cardinality(DOMAIN rooms[Highest(DOMAIN rooms)].bets_made)

(***************************************************************************)
(* C21.  When the window is open, get_status returns the participation     *)
(* flag None for the anonymous principal, and for any other viewer Some(b) *)
(* where b is true exactly when the viewer is a key of bets_made in some   *)
(* room of some slot of the post, not only in the current slot or room.    *)
(***************************************************************************)
C21_ParticipationFlag ==
    (ret.op = "get_status"
        /\ ret.secs <= TOTAL_DURATION_OF_ALL_SLOTS_IN_SECONDS) =>
      /\ ret.result.tag = "BettingOpen"
      /\ ret.result.has_this_user_participated_in_this_post =
           IF ret.principal = Anonymous
           THEN <<>>
           ELSE <<HasABet(ret.principal)>>

(***************************************************************************)
(* C22.  place_bet by a principal that is not anonymous, inside the open   *)
(* window, on a post whose hot_or_not_details is absent succeeds: it       *)
(* creates a default HotOrNotDetails and records the bet in it, instead of *)
(* failing or aborting.                                                    *)
(***************************************************************************)
C22_FirstBetCreatesDetails ==
    (/\ hot_or_not_details = None
     /\ ret'.op = "place_bet"
     /\ ret'.principal # Anonymous
     /\ ret'.secs <= TOTAL_DURATION_OF_ALL_SLOTS_IN_SECONDS)
    => /\ ret'.result.tag = "Ok"
       /\ hot_or_not_details' # None
       /\ BetKeysOf(hot_or_not_details')
            = {<<SlotAt(ret'.secs), 1, ret'.principal>>}

C22_BetOnAbsentDetailsSucceeds == [][C22_FirstBetCreatesDetails]_vars

(***************************************************************************)
(* C23.  get_status tolerates an absent hot_or_not_details for every       *)
(* viewer: inside the open window it returns BettingOpen with              *)
(* ongoing_room = 1, number_of_participants = 0 and the participation flag *)
(* None for the anonymous viewer and Some(false) for any other viewer,     *)
(* without aborting.                                                       *)
(***************************************************************************)
C23_StatusOnAbsentDetails ==
    (/\ ret.op = "get_status"
     /\ hot_or_not_details = None
     /\ ret.secs <= TOTAL_DURATION_OF_ALL_SLOTS_IN_SECONDS)
    => /\ ret.result.tag = "BettingOpen"
       /\ ret.result.ongoing_room = 1
       /\ ret.result.number_of_participants = 0
       /\ ret.result.has_this_user_participated_in_this_post =
            IF ret.principal = Anonymous THEN <<>> ELSE <<FALSE>>

(***************************************************************************)
(* C24.  The last (highest-keyed) room of a slot is the only one open for  *)
(* new bets: a successful place_bet at time now changes only the highest   *)
(* room of the slot derived from now, or creates the next room of that     *)
(* slot; every other room of that slot and every room of every other slot  *)
(* is left unchanged.                                                      *)
(***************************************************************************)
C24_OnlyTheLastRoomChanges ==
    (ret'.op = "place_bet" /\ ret'.result.tag = "Ok") =>
      LET slot == SlotAt(ret'.secs)
          before == RoomsIn(hot_or_not_details, slot)
          after == RoomsIn(hot_or_not_details', slot)
      IN  /\ DOMAIN Details'.slot_history
               = DOMAIN Details.slot_history \cup {slot}
          /\ \A s \in DOMAIN Details.slot_history :
               s # slot => Details'.slot_history[s] = Details.slot_history[s]
          /\ IF DOMAIN before = {}
             THEN DOMAIN after = {1}
             ELSE LET r == Highest(DOMAIN before)
                  IN  /\ \A q \in DOMAIN before :
                           q # r => (q \in DOMAIN after /\ after[q] = before[q])
                      /\ \/ DOMAIN after = DOMAIN before /\ after[r] # before[r]
                         \/ /\ DOMAIN after = DOMAIN before \cup {r + 1}
                            /\ r + 1 \notin DOMAIN before
                            /\ after[r] = before[r]

C24_OnlyTheLastRoomIsOpen == [][C24_OnlyTheLastRoomChanges]_vars

\* a bet has just been accepted in slot 2 of a post whose slot 1 has a full
\* room and the room after it
C24_Witness ==
    /\ ret.op = "place_bet" /\ ret.result.tag = "Ok"
    /\ SlotAt(ret.secs) = 2
    /\ DOMAIN Details.slot_history = {1, 2}
    /\ DOMAIN Details.slot_history[1].room_details = {1, 2}
    /\ DOMAIN Details.slot_history[2].room_details[1].bets_made = {ret.principal}

(***************************************************************************)
(* C25.  Bets are append-only: once a bet entry exists for a principal, no *)
(* place_bet or tabulate_slot call removes it or changes its amount,       *)
(* bet_direction or bet_maker_canister_id; the only field that ever        *)
(* changes is payout, and only inside tabulate_slot.                       *)
(***************************************************************************)
C25_BetsStay ==
    hot_or_not_details' # hot_or_not_details =>
      \A sr \in RoomKeys :
        /\ sr \in RoomKeys'
        /\ LET before == RoomAt(sr).bets_made
               after == RoomAt(sr)'.bets_made
           IN  after # before =>
                 \A p \in DOMAIN before :
                   /\ p \in DOMAIN after
                   /\ after[p].amount = before[p].amount
                   /\ after[p].bet_direction = before[p].bet_direction
                   /\ after[p].bet_maker_canister_id
                        = before[p].bet_maker_canister_id
                   /\ after[p].payout # before[p].payout
                        => /\ ret'.op = "tabulate_slot"
                           /\ ret'.slot_id = sr[1]

C25_BetsAreAppendOnly == [][C25_BetsStay]_vars

\* a tabulation has just settled a room of 99 bets: a losing bet of 100 has
\* the payout 0 and still its amount, and a winning bet of 50 the payout 90
C25_Witness ==
    /\ ret.op = "tabulate_slot" /\ ret.events # <<>>
    /\ \E sr \in RoomKeys :
         /\ sr[1] = ret.slot_id
         /\ Cardinality(DOMAIN RoomAt(sr).bets_made) >= 99
         /\ \E p \in DOMAIN RoomAt(sr).bets_made :
              /\ RoomAt(sr).bets_made[p].amount = 100
              /\ RoomAt(sr).bets_made[p].payout = Calculated(0)
         /\ \E p \in DOMAIN RoomAt(sr).bets_made :
              /\ RoomAt(sr).bets_made[p].amount = 50
              /\ RoomAt(sr).bets_made[p].payout = Calculated(90)

(***************************************************************************)
(* C26.  A place_bet call that returns an error (UserNotLoggedIn,          *)
(* BettingClosed or UserAlreadyParticipatedInThisPost) leaves the whole    *)
(* post state unchanged: hot_or_not_details, slot_history, every room and  *)
(* aggregate_stats are as before the call, and a following get_status      *)
(* returns what it would have returned before.                             *)
(***************************************************************************)
C26_NothingChanges ==
    (ret'.op = "place_bet" /\ ret'.result.tag = "Err") =>
      /\ hot_or_not_details' = hot_or_not_details
      /\ id' = id /\ created_at' = created_at
      /\ token_balance' = token_balance
      /\ \A viewer \in {Anonymous, ret'.principal} :
           get_hot_or_not_betting_status_for_this_post(
               hot_or_not_details', created_at', ret'.secs, viewer)
           = get_hot_or_not_betting_status_for_this_post(
               hot_or_not_details, created_at, ret'.secs, viewer)

C26_FailedBetChangesNothing == [][C26_NothingChanges]_vars

\* the anonymous principal has just been refused on a post that has bets and
\* a decided room
C26_Witness ==
    /\ ret.op = "place_bet"
    /\ ret.principal = Anonymous
    /\ ret.result = Err("UserNotLoggedIn")
    /\ \E sr \in RoomKeys : Decided(sr)
    /\ Details.aggregate_stats.total_amount_bet > 0

(***************************************************************************)
(* C27.  The core performs no amount validation: two place_bet calls in    *)
(* the same state, by the same principal at the same now, that differ only *)
(* in amount (zero included) or direction either both fail with the same   *)
(* error or both succeed and place the bet in the same slot and room.      *)
(***************************************************************************)
\* amounts of the calls compared in every state: zero, small and large
ComparedAmounts == {0, 7, 1000000000}

\* the callers of the calls compared in every state
ComparedCallers == {Anonymous, 1, NumSmallBetMakers + 1}

C27_NoAmountValidation ==
    \A p \in ComparedCallers, secs \in ElapsedTimes :
        LET reference == place_hot_or_not_bet(hot_or_not_details, created_at,
                             p, CanisterOf(p), 0, "Hot", secs)
        IN  \A amount \in ComparedAmounts, direction \in Directions :
              LET call == place_hot_or_not_bet(hot_or_not_details, created_at,
                              p, CanisterOf(p), amount, direction, secs)
              IN  IF reference.result.tag = "Ok"
                  THEN /\ call.result.tag = "Ok"
                       /\ BetKeysOf(call.post) = BetKeysOf(reference.post)
                       /\ BetKeysOf(call.post) # BetKeysOf(hot_or_not_details)
                  ELSE /\ call.result = reference.result
                       /\ call.post = reference.post

\* a room holds a Hot bet of 7 and a Not bet of 100, the second just accepted
C27_Witness ==
    /\ ret.op = "place_bet" /\ ret.result.tag = "Ok"
    /\ \E sr \in RoomKeys :
         /\ ret.principal \in DOMAIN RoomAt(sr).bets_made
         /\ RoomAt(sr).bets_made[ret.principal].amount = 100
         /\ RoomAt(sr).bets_made[ret.principal].bet_direction = "Not"
         /\ \E q \in DOMAIN RoomAt(sr).bets_made :
              /\ RoomAt(sr).bets_made[q].amount = 7
              /\ RoomAt(sr).bets_made[q].bet_direction = "Hot"

(***************************************************************************)
(* C28.  tabulate_slot skips every room whose bet_outcome is not           *)
(* BetOngoing, so tabulation is idempotent: a second tabulate_slot(s) with *)
(* no place_bet in between changes nothing in the post and hands no        *)
(* further event to the token balance.                                     *)
(***************************************************************************)
C28_SecondTabulationDoesNothing ==
    (/\ ret.op = "tabulate_slot"
     /\ ret'.op = "tabulate_slot"
     /\ ret'.slot_id = ret.slot_id)
    => /\ hot_or_not_details' = hot_or_not_details
       /\ token_balance' = token_balance
       /\ ret'.events = <<>>

C28_TabulationIsIdempotent == [][C28_SecondTabulationDoesNothing]_vars

\* the tabulation of a slot of two decided rooms, whose two events are the
\* last of the token balance, has just returned without an event
C28_Witness ==
    /\ ret.op = "tabulate_slot" /\ ret.events = <<>>
    /\ DOMAIN RoomsIn(hot_or_not_details, ret.slot_id) = {1, 2}
    /\ \A r \in {1, 2} :
         RoomsIn(hot_or_not_details, ret.slot_id)[r].bet_outcome # "BetOngoing"
    /\ Len(token_balance) = 2
    /\ token_balance[2].details.slot_id = ret.slot_id

(***************************************************************************)
(* C29.  Over any sequence of place_bet and tabulate_slot calls on one     *)
(* token balance, each (slot, room) receives at most one commission event; *)
(* the number of events delivered is the number of rooms whose bet_outcome *)
(* is not BetOngoing, and each event carries the commission of the pot its *)
(* room had when it was decided, so the amounts add up to the sum of those *)
(* commissions.                                                            *)
(***************************************************************************)
\* the (slot, room) an event of the token balance is about
RoomOfEvent(event) == <<event.details.slot_id, event.details.room_id>>

C29_OneEventPerDecidedRoom ==
    /\ \A i, j \in 1 .. Len(token_balance) :
         i # j => RoomOfEvent(token_balance[i]) # RoomOfEvent(token_balance[j])
    /\ Len(token_balance) = Cardinality({sr \in RoomKeys : Decided(sr)})
    /\ \A i \in 1 .. Len(token_balance) :
         LET event == token_balance[i]
         IN  /\ RoomOfEvent(event) \in RoomKeys
             /\ Decided(RoomOfEvent(event))
             /\ event.amount = (event.details.room_pot_total_amount * 10) \div 100
             /\ event.details.room_pot_total_amount
                  <= RoomAt(RoomOfEvent(event)).room_bets_total_pot

\* three events: the two rooms of slot 1, then the room of slot 2
C29_Witness ==
    /\ Len(token_balance) = 3
    /\ RoomOfEvent(token_balance[1]) = <<1, 1>>
    /\ RoomOfEvent(token_balance[2]) = <<1, 2>>
    /\ RoomOfEvent(token_balance[3]) = <<2, 1>>
    /\ token_balance[1].amount > 0
    /\ \A sr \in RoomKeys : Decided(sr)

(***************************************************************************)
(* C30.  tabulate_slot(s) changes only the bet_outcome of rooms of slot s  *)
(* and the payout of bets in those rooms: aggregate_stats, every other     *)
(* slot, and in slot s the set of rooms, each room's room_bets_total_pot,  *)
(* total_hot_bets, total_not_bets, set of participants, and each bet's     *)
(* amount and direction are unchanged.                                     *)
(***************************************************************************)
\* a bet with its payout field blanked
WithoutPayout(bet) == [bet EXCEPT !.payout = "Blank"]

\* a room with its bet_outcome and every payout blanked
WithoutOutcome(room) ==
    [room EXCEPT !.bet_outcome = "Blank",
                 !.bets_made = [p \in DOMAIN room.bets_made |->
                                  WithoutPayout(room.bets_made[p])]]

C30_TabulationFrame ==
    (ret'.op = "tabulate_slot" /\ hot_or_not_details' # hot_or_not_details)
    => /\ hot_or_not_details # None
       /\ hot_or_not_details' # None
       /\ LET before == hot_or_not_details[1]
              after  == hot_or_not_details'[1]
              s      == ret'.slot_id
          IN  /\ after.aggregate_stats = before.aggregate_stats
              /\ DOMAIN after.slot_history = DOMAIN before.slot_history
              /\ s \in DOMAIN before.slot_history
              /\ \A t \in DOMAIN before.slot_history \ {s} :
                   after.slot_history[t] = before.slot_history[t]
              /\ DOMAIN after.slot_history[s].room_details
                   = DOMAIN before.slot_history[s].room_details
              /\ \A r \in DOMAIN before.slot_history[s].room_details :
                   WithoutOutcome(after.slot_history[s].room_details[r])
                     = WithoutOutcome(before.slot_history[s].room_details[r])

C30_TabulationChangesOnlyOutcomes == [][C30_TabulationFrame]_vars

\* slot 1 has been tabulated with both its rooms decided while slot 2 holds an
\* untouched open room
C30_Witness ==
    /\ ret.op = "tabulate_slot"
    /\ ret.slot_id = 1
    /\ Len(ret.events) = 2
    /\ hot_or_not_details # None
    /\ DOMAIN hot_or_not_details[1].slot_history = {1, 2}
    /\ \A r \in {1, 2} : Decided(<<1, r>>)
    /\ ~Decided(<<2, 1>>)
    /\ \E p \in DOMAIN RoomAt(<<1, 1>>).bets_made :
         RoomAt(<<1, 1>>).bets_made[p].payout.tag # "NotCalculatedYet"

(***************************************************************************)
(* C31.  Settlement is terminal: a room's bet_outcome changes only from    *)
(* BetOngoing to one of HotWon, NotWon, Draw and never changes again, and  *)
(* a bet's payout changes only from NotCalculatedYet to Calculated(v) and  *)
(* is never recomputed or reset by a later place_bet or tabulate_slot.     *)
(***************************************************************************)
DecidedOutcomes == {"HotWon", "NotWon", "Draw"}

C31_SettlementStays ==
    hot_or_not_details' # hot_or_not_details =>
      \A sr \in RoomKeys :
        /\ sr \in RoomKeys'
        /\ LET before == RoomAt(sr)
               after == RoomAt(sr)'
           IN  after # before =>
                 /\ after.bet_outcome # before.bet_outcome
                      => /\ before.bet_outcome = "BetOngoing"
                         /\ after.bet_outcome \in DecidedOutcomes
                 /\ \A p \in DOMAIN before.bets_made :
                      /\ p \in DOMAIN after.bets_made
                      /\ after.bets_made[p].payout # before.bets_made[p].payout
                           => /\ before.bets_made[p].payout = NotCalculatedYet
                              /\ after.bets_made[p].payout.tag = "Calculated"

C31_SettlementIsTerminal == [][C31_SettlementStays]_vars

\* a decided room took a further bet and its slot was tabulated once more:
\* the outcome and the payouts of the first tabulation are still in place
C31_Witness ==
    /\ ret.op = "tabulate_slot"
    /\ ret.events = <<>>
    /\ \E sr \in RoomKeys :
         /\ sr[1] = ret.slot_id
         /\ RoomAt(sr).bet_outcome = "HotWon"
         /\ RoomAt(sr).total_hot_bets = RoomAt(sr).total_not_bets
         /\ \E p, q \in DOMAIN RoomAt(sr).bets_made :
              /\ RoomAt(sr).bets_made[p].payout.tag = "Calculated"
              /\ RoomAt(sr).bets_made[p].payout.value > 0
              /\ RoomAt(sr).bets_made[q].payout = NotCalculatedYet

(***************************************************************************)
(* C32.  Room numbering is local to a slot: while the window is open, for  *)
(* a slot without entry in slot_history get_status reports ongoing_room 1  *)
(* with 0 participants, however many rooms earlier slots have, the flag of *)
(* a viewer who has bet earlier is Some(TRUE), and the bet of a principal  *)
(* who has not bet yet lands in room 1 of that slot.                       *)
(***************************************************************************)
C32_Viewers == Principals \cup {1, MaxOpeningBets}

C32_RoomNumberingIsLocal ==
    \A secs \in ElapsedTimes :
        (/\ contest_is_still_ongoing(secs)
         /\ SlotAt(secs) \notin DOMAIN DetailsOf(hot_or_not_details).slot_history)
        => /\ \A viewer \in C32_Viewers :
                LET status == get_hot_or_not_betting_status_for_this_post(
                                  hot_or_not_details, created_at, secs, viewer)
                IN  /\ status.tag = "BettingOpen"
                    /\ status.ongoing_room = 1
                    /\ status.number_of_participants = 0
                    /\ HasABet(viewer) =>
                         status.has_this_user_participated_in_this_post = Some(TRUE)
           /\ \A bettor \in BetMakers :
                ~HasABet(bettor) =>
                  LET call == place_hot_or_not_bet(hot_or_not_details, created_at,
                                  bettor, CanisterOf(bettor), 7, "Hot", secs)
                  IN  /\ call.result.tag = "Ok"
                      /\ DOMAIN call.post[1].slot_history[SlotAt(secs)].room_details
                           = {1}
                      /\ bettor \in DOMAIN call.post[1].slot_history[SlotAt(secs)]
                                             .room_details[1].bets_made

(***************************************************************************)
(* C33.  In every reachable state no slot entry is empty and no room is    *)
(* empty: every slot of slot_history has at least one room, every room     *)
(* other than the highest-keyed room of its slot holds exactly 100 bets,   *)
(* and the highest-keyed room holds between 1 and 100 bets.                *)
(***************************************************************************)
BetCount(room) == Cardinality(DOMAIN room.bets_made)

C33_NoEmptySlotOrRoom ==
    \A s \in DOMAIN Details.slot_history :
        LET rooms == Details.slot_history[s].room_details
        IN  /\ DOMAIN rooms # {}
            /\ \A r \in DOMAIN rooms :
                 IF r = Highest(DOMAIN rooms)
                 THEN BetCount(rooms[r]) \in 1 .. 100
                 ELSE BetCount(rooms[r]) = 100

\* slot 1 has a full room 1 and the 101st bet in room 2, next to a later slot
C33_Witness ==
    /\ hot_or_not_details # None
    /\ 1 \in DOMAIN Details.slot_history
    /\ DOMAIN Details.slot_history \ {1} # {}
    /\ DOMAIN Details.slot_history[1].room_details = {1, 2}
    /\ BetCount(Details.slot_history[1].room_details[1]) = 100
    /\ BetCount(Details.slot_history[1].room_details[2]) = 1

(***************************************************************************)
(* C34.  When calls are made with non-decreasing now (the bet's slot is    *)
(* the last slot of slot_history), a successful place_bet returns exactly  *)
(* the BettingStatus that get_status(now, same principal) returns          *)
(* immediately afterwards: ongoing_slot and ongoing_room are the slot and  *)
(* room the bet was inserted into, number_of_participants is that room's   *)
(* bet count after the insert, and the participation flag is Some(TRUE).   *)
(***************************************************************************)
C34_ReturnedStatusIsTheStatusAfterwards ==
    (/\ ret.op = "place_bet"
     /\ ret.result.tag = "Ok"
     /\ SlotAt(ret.secs) = Highest(DOMAIN Details.slot_history))
    => LET status == ret.result.status
           rooms == RoomsIn(hot_or_not_details, SlotAt(ret.secs))
       IN  /\ status = get_hot_or_not_betting_status_for_this_post(
                           hot_or_not_details, created_at, ret.secs, ret.principal)
           /\ status.ongoing_slot = SlotAt(ret.secs)
           /\ status.ongoing_room \in DOMAIN rooms
           /\ ret.principal \in DOMAIN rooms[status.ongoing_room].bets_made
           /\ status.number_of_participants
                = BetCount(rooms[status.ongoing_room])
           /\ status.has_this_user_participated_in_this_post = Some(TRUE)

\* a bet at the start of slot 2 after slot 1 has spilled into room 2: the
\* returned status is about room 1 of slot 2 with its single participant
C34_Witness ==
    /\ ret.op = "place_bet"
    /\ ret.result.tag = "Ok"
    /\ DOMAIN Details.slot_history = {1, 2}
    /\ SlotAt(ret.secs) = 2
    /\ DOMAIN RoomsIn(hot_or_not_details, 1) = {1, 2}
    /\ ret.result.status.ongoing_slot = 2
    /\ ret.result.status.ongoing_room = 1
    /\ ret.result.status.number_of_participants = 1

(***************************************************************************)
(* C35.  If now never decreases and tabulate_slot(s) is only called once   *)
(* the window of slot s has ended (elapsed >= s * 3600), then for every    *)
(* slot s in 1..48 no later place_bet adds a bet to slot s: a call at or   *)
(* after the end of the window leaves the slot's entry as it is unless it  *)
(* is the tabulation of s, every decided room stays exactly as it is, and  *)
(* every bet of a decided room has payout Calculated.                      *)
(***************************************************************************)
C35_TabulatedSlotStays ==
    /\ \A s \in 1 .. MAXIMUM_NUMBER_OF_SLOTS :
         (/\ WindowHasEnded(s, Clock')
          /\ ~(ret'.op = "tabulate_slot" /\ ret'.slot_id = s))
         => RoomsIn(hot_or_not_details', s) = RoomsIn(hot_or_not_details, s)
    /\ \A sr \in RoomKeys :
         (sr[1] \in 1 .. MAXIMUM_NUMBER_OF_SLOTS /\ Decided(sr))
         => /\ WindowHasEnded(sr[1], Clock)
            /\ AllPayoutsCalculated(RoomAt(sr))
            /\ \A r \in DOMAIN RoomsIn(hot_or_not_details, sr[1]) :
                 Decided(<<sr[1], r>>)
            /\ sr \in RoomKeys'
            /\ RoomAt(sr)' = RoomAt(sr)

C35_LateTabulationIsFinal == [][C35_TabulatedSlotStays]_vars

\* slot 48 was tabulated at the last second of the contest and a bet placed
\* in that same second has not landed in it
C35_Witness ==
    /\ ret.op = "place_bet"
    /\ ret.result.tag = "Ok"
    /\ ret.secs = TOTAL_DURATION_OF_ALL_SLOTS_IN_SECONDS
    /\ <<MAXIMUM_NUMBER_OF_SLOTS, 1>> \in RoomKeys
    /\ Decided(<<MAXIMUM_NUMBER_OF_SLOTS, 1>>)
    /\ AllPayoutsCalculated(RoomAt(<<MAXIMUM_NUMBER_OF_SLOTS, 1>>))
    /\ ret.principal \notin DOMAIN RoomAt(<<MAXIMUM_NUMBER_OF_SLOTS, 1>>).bets_made

(***************************************************************************)
(* C36.  Every accepted bet is eventually settled by tabulating the 48     *)
(* slots: once the contest window has closed (elapsed > 172800) and every  *)
(* slot 1..48 has been tabulated, so that every room of the slots 1..48 is *)
(* decided, every room of the post is decided and every bet ever accepted  *)
(* has payout Calculated.                                                  *)
(***************************************************************************)
C36_AllBetsSettledAfterClose ==
    (/\ ret.op = "tabulate_slot"
     /\ Clock > TOTAL_DURATION_OF_ALL_SLOTS_IN_SECONDS
     /\ \A sr \in RoomKeys :
          sr[1] \in 1 .. MAXIMUM_NUMBER_OF_SLOTS => Decided(sr))
    => \A sr \in RoomKeys :
          /\ Decided(sr)
          /\ AllPayoutsCalculated(RoomAt(sr))

(***************************************************************************)
(* C37.  In a room decided Draw, the sum of all participants' payouts plus *)
(* the creator commission emitted for the room never exceeds the room's    *)
(* room_bets_total_pot at the time of tabulation.                          *)
(***************************************************************************)
\* the sum of the calculated payouts of the bets of a room
SumOfPayouts(room) ==
    SumOver([p \in DOMAIN room.bets_made |-> room.bets_made[p].payout.value],
            1, MaxOpeningBets + NumBetMakers)

\* the sum of the amounts of the commission events of a call for room r
CommissionOfRoom(events, r) ==
    SumOver([i \in EventsOfRoom(events, r) |-> events[i].amount], 1, Len(events))

C37_DrawPaysAtMostThePot ==
    \A slot_id \in TabulatedSlots, now \in TabulationTimes,
       post_canister_id \in PostCanisterIds :
        LET call == tabulate_hot_or_not_outcome_for_slot(
                        hot_or_not_details, id, post_canister_id, slot_id, now)
            before == RoomsIn(hot_or_not_details, slot_id)
            after == RoomsIn(call.post, slot_id)
        IN  \A r \in DOMAIN before :
              (/\ before[r].bet_outcome = "BetOngoing"
               /\ after[r].bet_outcome = "Draw") =>
                /\ AllPayoutsCalculated(after[r])
                /\ SumOfPayouts(after[r]) + CommissionOfRoom(call.events, r)
                     <= before[r].room_bets_total_pot

\* a tabulation has just decided a room of a Hot bet of 7 and a Not bet of 7
\* Draw: 6 + 6 paid out and 1 of commission, 13 of the pot of 14
C37_Witness ==
    /\ ret.op = "tabulate_slot"
    /\ Len(ret.events) = 1
    /\ ret.events[1].amount = 1
    /\ LET room == RoomsIn(hot_or_not_details, ret.slot_id)[1]
       IN  /\ room.bet_outcome = "Draw"
           /\ room.room_bets_total_pot = 14
           /\ SumOfPayouts(room) = 12

(***************************************************************************)
(* C38.  As stated: in every room decided HotWon or NotWon, whatever the   *)
(* split of bets and amounts between the two sides (a room with bets on    *)
(* one side only included), the sum of all participants' payouts plus the  *)
(* creator commission emitted for the room does not exceed the room's      *)
(* room_bets_total_pot at the time of tabulation.                          *)
(***************************************************************************)
C38_WinPaysAtMostThePot ==
    \A slot_id \in TabulatedSlots, now \in TabulationTimes,
       post_canister_id \in PostCanisterIds :
        LET call == tabulate_hot_or_not_outcome_for_slot(
                        hot_or_not_details, id, post_canister_id, slot_id, now)
            before == RoomsIn(hot_or_not_details, slot_id)
            after == RoomsIn(call.post, slot_id)
        IN  \A r \in DOMAIN before :
              (/\ before[r].bet_outcome = "BetOngoing"
               /\ after[r].bet_outcome \in {"HotWon", "NotWon"}) =>
                SumOfPayouts(after[r]) + CommissionOfRoom(call.events, r)
                  <= before[r].room_bets_total_pot

(***************************************************************************)
(* C38, amended.  In every room decided HotWon or NotWon the sum of the    *)
(* payouts plus the commission is at most 180% of the stake of the winning *)
(* side plus 10% of the pot (both truncated); it does not exceed the pot   *)
(* when the winning side has staked no more than the losing side.          *)
(***************************************************************************)
\* the sum of the amounts bet on a direction in a room
StakeOn(room, direction) ==
    SumOver([p \in BetsIn(room, direction) |-> room.bets_made[p].amount],
            1, MaxOpeningBets + NumBetMakers)

C38_WinPaysFromTheLosingSide ==
    \A slot_id \in TabulatedSlots, now \in TabulationTimes,
       post_canister_id \in PostCanisterIds :
        LET call == tabulate_hot_or_not_outcome_for_slot(
                        hot_or_not_details, id, post_canister_id, slot_id, now)
            before == RoomsIn(hot_or_not_details, slot_id)
            after == RoomsIn(call.post, slot_id)
        IN  \A r \in DOMAIN before :
              (/\ before[r].bet_outcome = "BetOngoing"
               /\ after[r].bet_outcome \in {"HotWon", "NotWon"}) =>
                LET won == StakeOn(before[r],
                                   WinningDirection(after[r].bet_outcome))
                    lost == StakeOn(before[r],
                                OtherDirection(WinningDirection(after[r].bet_outcome)))
                    paid == SumOfPayouts(after[r])
                              + CommissionOfRoom(call.events, r)
                    pot == before[r].room_bets_total_pot
                IN  /\ AllPayoutsCalculated(after[r])
                    /\ paid <= ((won * 180) \div 100) + ((pot * 10) \div 100)
                    /\ won <= lost => paid <= pot

\* a tabulation has just decided HotWon a room of two Hot bets of 7 and one
\* Not bet of 100: 12 + 12 paid out and 11 of commission, 35 of the pot of 114
C38_Witness ==
    /\ ret.op = "tabulate_slot"
    /\ Len(ret.events) = 1
    /\ ret.events[1].amount = 11
    /\ LET room == RoomsIn(hot_or_not_details, ret.slot_id)[1]
       IN  /\ room.bet_outcome = "HotWon"
           /\ room.room_bets_total_pot = 114
           /\ StakeOn(room, "Hot") = 14
           /\ SumOfPayouts(room) = 24

(***************************************************************************)
(* A fourth specification, of the u64 arithmetic on amounts.  An amount is *)
(* a sequence of 16-bit limbs, least significant first: four limbs are a   *)
(* u64, and the exact value of a sum or product is kept in six limbs.  An  *)
(* overflowing u64 operation wraps in a build without overflow checks and  *)
(* panics in a build with them; the post is one room in slot 1.            *)
(***************************************************************************)
\* the value of one limb position
LimbBase == 65536

\* a u64 is four limbs
U64Limbs == 4

\* limbs of an exact intermediate value
WideLimbs == 6

\* principals that bet in the u64 specification
NumWideBetMakers == 2

WideBetMakers == 1 .. NumWideBetMakers

\* bet_amount: 0, 7, the largest amount whose product with 2 * 90 fits in
\* u64 and its successor, 2^63 and u64::MAX
WideAmounts ==
    { <<0, 0, 0, 0>>, <<7, 0, 0, 0>>,
      <<49516, 27670, 5825, 364>>, <<49517, 27670, 5825, 364>>,
      <<0, 0, 0, 32768>>, <<65535, 65535, 65535, 65535>> }

\* overflow checks on (panic) or off (wrap)
Builds == {"overflow_checks", "wrapping"}

ZeroU64 == <<0, 0, 0, 0>>

Limb(a, i) == IF i <= Len(a) THEN a[i] ELSE 0

\* the carry into limb i of a + b
RECURSIVE AddCarry(_, _, _)
AddCarry(a, b, i) ==
    IF i = 1 THEN 0
    ELSE (Limb(a, i - 1) + Limb(b, i - 1) + AddCarry(a, b, i - 1)) \div LimbBase

\* a + b, exactly
ExactAdd(a, b) ==
    [i \in 1 .. WideLimbs |->
        (Limb(a, i) + Limb(b, i) + AddCarry(a, b, i)) % LimbBase]

\* the carry into limb i of a * k, for a small factor k
RECURSIVE MulCarry(_, _, _)
MulCarry(a, k, i) ==
    IF i = 1 THEN 0
    ELSE (Limb(a, i - 1) * k + MulCarry(a, k, i - 1)) \div LimbBase

\* a * k, exactly
ExactMul(a, k) ==
    [i \in 1 .. WideLimbs |-> (Limb(a, i) * k + MulCarry(a, k, i)) % LimbBase]

\* the remainder that long division of a by d carries down into limb i - 1
RECURSIVE DivRem(_, _, _)
DivRem(a, d, i) ==
    IF i > Len(a) THEN 0
    ELSE (DivRem(a, d, i + 1) * LimbBase + a[i]) % d

\* a / d truncated, for a small divisor d
ExactDiv(a, d) ==
    [i \in 1 .. Len(a) |-> (DivRem(a, d, i + 1) * LimbBase + a[i]) \div d]

\* the value fits in a u64
FitsU64(a) == \A i \in (U64Limbs + 1) .. Len(a) : a[i] = 0

\* the value modulo 2^64
WrapU64(a) == [i \in 1 .. U64Limbs |-> Limb(a, i)]

\* two limb sequences denote the same number
SameValue(a, b) == \A i \in 1 .. WideLimbs : Limb(a, i) = Limb(b, i)

\* `a + b` and `a += b` on u64
u64_add(a, b) ==
    [value |-> WrapU64(ExactAdd(a, b)), overflow |-> ~FitsU64(ExactAdd(a, b))]

\* `a * k` on u64
u64_mul(a, k) ==
    [value |-> WrapU64(ExactMul(a, k)), overflow |-> ~FitsU64(ExactMul(a, k))]

\* `a / d` on u64
u64_div(a, d) == ExactDiv(a, d)

WideRoomDetailsDefault ==
    [bets_made |-> <<>>, bet_outcome |-> "BetOngoing",
     room_bets_total_pot |-> ZeroU64, total_hot_bets |-> 0, total_not_bets |-> 0]

WideHotOrNotDetailsDefault ==
    [aggregate_stats |-> [total_number_of_hot_bets |-> 0,
                          total_number_of_not_bets |-> 0,
                          total_amount_bet |-> ZeroU64],
     slot_history |-> <<>>]

\* the room of slot 1, the default one before the first bet
WideRoom ==
    IF 1 \in DOMAIN hot_or_not_details[1].slot_history
    THEN hot_or_not_details[1].slot_history[1].room_details[1]
    ELSE WideRoomDetailsDefault

WideInit ==
    /\ id = 0
    /\ created_at = 0
    /\ hot_or_not_details = Some(WideHotOrNotDetailsDefault)
    /\ token_balance = <<>>
    /\ ret = NoCall
    /\ opening = 0
    /\ memory_manager = MemoryManagerInit

\* place_hot_or_not_bet at elapsed 0 by a principal that has not bet yet
WidePlaceBet ==
    /\ \E principal \in WideBetMakers, amount \in WideAmounts,
          direction \in Directions, build \in Builds :
        /\ principal \notin DOMAIN WideRoom.bets_made
        /\ principal = 1 \/ (principal - 1) \in DOMAIN WideRoom.bets_made
        /\ LET h == hot_or_not_details[1]
               pot == u64_add(WideRoom.room_bets_total_pot, amount)
               total == u64_add(h.aggregate_stats.total_amount_bet, amount)
               room_detail ==
                   [WideRoom EXCEPT
                      !.bets_made = Insert(@, principal,
                                        BetDetails(amount, direction,
                                                   CanisterOf(principal))),
                      !.room_bets_total_pot = pot.value,
                      !.total_hot_bets =
                          IF direction = "Hot" THEN @ + 1 ELSE @,
                      !.total_not_bets =
                          IF direction = "Not" THEN @ + 1 ELSE @]
               stats ==
                   [h.aggregate_stats EXCEPT
                      !.total_amount_bet = total.value,
                      !.total_number_of_hot_bets =
                          IF direction = "Hot" THEN @ + 1 ELSE @,
                      !.total_number_of_not_bets =
                          IF direction = "Not" THEN @ + 1 ELSE @]
           IN  IF (pot.overflow \/ total.overflow) /\ build = "overflow_checks"
               THEN /\ hot_or_not_details' = hot_or_not_details
                    /\ ret' = [op |-> "place_bet", principal |-> principal,
                               secs |-> 0, result |-> Panic]
               ELSE /\ hot_or_not_details' =
                          Some([aggregate_stats |-> stats,
                                slot_history |->
                                  Insert(<<>>, 1,
                                    [room_details |->
                                       Insert(<<>>, 1, room_detail)])])
                    /\ ret' = [op |-> "place_bet", principal |-> principal,
                               secs |-> 0, result |-> [tag |-> "Ok"]]
    /\ UNCHANGED <<id, created_at, token_balance, opening, memory_manager>>

\* the payout of one bet as the u64 arithmetic computes it
wide_bet_payout(bet_outcome, bet_details) ==
    LET doubled == u64_mul(bet_details.amount,
                           HOT_OR_NOT_BET_WINNINGS_MULTIPLIER)
        winnings == u64_mul(doubled.value,
                        100 - HOT_OR_NOT_BET_CREATOR_COMMISSION_PERCENTAGE)
        refund == u64_mul(bet_details.amount,
                        100 - HOT_OR_NOT_BET_CREATOR_COMMISSION_PERCENTAGE)
    IN  IF bet_outcome = "Draw"
        THEN [value |-> u64_div(refund.value, 100), overflow |-> refund.overflow]
        ELSE IF bet_details.bet_direction = WinningDirection(bet_outcome)
        THEN [value |-> u64_div(winnings.value, 100),
              overflow |-> doubled.overflow \/ winnings.overflow]
        ELSE [value |-> ZeroU64, overflow |-> FALSE]

\* tabulate_hot_or_not_outcome_for_slot(1) on the undecided room of slot 1
WideTabulateSlot ==
    /\ 1 \in DOMAIN hot_or_not_details[1].slot_history
    /\ WideRoom.bet_outcome = "BetOngoing"
    /\ \E build \in Builds, post_canister_id \in PostCanisterIds,
          now \in TabulationTimes :
        LET outcome == decided_outcome(WideRoom)
            commission == u64_mul(WideRoom.room_bets_total_pot,
                              HOT_OR_NOT_BET_CREATOR_COMMISSION_PERCENTAGE)
            payouts == [p \in DOMAIN WideRoom.bets_made |->
                          wide_bet_payout(outcome, WideRoom.bets_made[p])]
            overflow == \/ commission.overflow
                        \/ \E p \in DOMAIN payouts : payouts[p].overflow
            room_detail ==
                [WideRoom EXCEPT
                   !.bet_outcome = outcome,
                   !.bets_made = [p \in DOMAIN WideRoom.bets_made |->
                                    [WideRoom.bets_made[p] EXCEPT
                                       !.payout = Calculated(payouts[p].value)]]]
            event ==
                [amount |-> u64_div(commission.value, 100),
                 details |-> [post_canister_id |-> post_canister_id,
                              post_id |-> id, slot_id |-> 1, room_id |-> 1,
                              room_pot_total_amount |->
                                  WideRoom.room_bets_total_pot],
                 timestamp |-> now]
        IN  IF overflow /\ build = "overflow_checks"
            THEN /\ UNCHANGED <<hot_or_not_details, token_balance>>
                 /\ ret' = [op |-> "tabulate_slot", slot_id |-> 1,
                            secs |-> now, events |-> <<>>, result |-> Panic]
            ELSE /\ hot_or_not_details' =
                       Some([hot_or_not_details[1] EXCEPT
                               !.slot_history[1].room_details[1] = room_detail])
                 /\ token_balance' = handle_token_events(token_balance, <<event>>)
                 /\ ret' = [op |-> "tabulate_slot", slot_id |-> 1,
                            secs |-> now, events |-> <<event>>,
                            result |-> [tag |-> "Ok"]]
    /\ UNCHANGED <<id, created_at, opening, memory_manager>>

WideNext == WidePlaceBet \/ WideTabulateSlot

WideSpec == WideInit /\ [][WideNext]_vars

(***************************************************************************)
(* C39.  For every amount the core accepts (any u64) and any number of     *)
(* bets, the running sums room_bets_total_pot and total_amount_bet and the *)
(* products amount * 2 * 90, amount * 90 and room_bets_total_pot * 10 fit  *)
(* in u64: no call aborts, the stored totals are the exact sums of the     *)
(* amounts, and the payouts and the commission are the exact values of     *)
(* their formulas.                                                         *)
(***************************************************************************)
\* the exact sum of the amounts of the bets of the principals 1 .. n
RECURSIVE ExactSumOfAmounts(_, _)
ExactSumOfAmounts(bets_made, n) ==
    IF n = 0 THEN ZeroU64
    ELSE ExactAdd(ExactSumOfAmounts(bets_made, n - 1),
                  IF n \in DOMAIN bets_made THEN bets_made[n].amount ELSE ZeroU64)

\* the exact value of the payout formula of a bet
ExactPayout(bet_outcome, bet_details) ==
    IF bet_outcome = "Draw"
    THEN ExactDiv(ExactMul(bet_details.amount, 90), 100)
    ELSE IF bet_details.bet_direction = WinningDirection(bet_outcome)
    THEN ExactDiv(ExactMul(ExactMul(bet_details.amount, 2), 90), 100)
    ELSE ZeroU64

C39_AllArithmeticFitsInU64 ==
    LET exact_pot == ExactSumOfAmounts(WideRoom.bets_made, NumWideBetMakers + 1)
    IN  /\ ret # NoCall => ret.result # Panic
        /\ SameValue(WideRoom.room_bets_total_pot, exact_pot)
        /\ SameValue(hot_or_not_details[1].aggregate_stats.total_amount_bet,
                     exact_pot)
        /\ \A p \in DOMAIN WideRoom.bets_made :
             WideRoom.bets_made[p].payout.tag = "Calculated" =>
               SameValue(WideRoom.bets_made[p].payout.value,
                         ExactPayout(WideRoom.bet_outcome, WideRoom.bets_made[p]))
        /\ \A i \in 1 .. Len(token_balance) :
             SameValue(token_balance[i].amount,
                       ExactDiv(ExactMul(token_balance[i].details
                                             .room_pot_total_amount, 10), 100))

(***************************************************************************)
(* A fifth specification, of the upgrade hook: pre_upgrade serializes the  *)
(* canister state and writes it, behind its length, to the upgrades        *)
(* memory.  A memory is a sequence of bytes; the serialized state is any   *)
(* of a few byte strings, of lengths on both sides of one length byte.     *)
(***************************************************************************)
\* the longest of the short serialized states
MaxStateBytes == 3

\* state_bytes.len()
StateLengths == (0 .. MaxStateBytes) \cup {256, 300}

\* two contents for every length
StateSalts == {0, 1}

\* ser::into_writer(&*canister_data, &mut state_bytes)
SerializedStates ==
    {[i \in 1 .. n |-> (i * 7 + salt) % 256] : n \in StateLengths, salt \in StateSalts}

\* Mutant: the length is written most significant byte first.
to_be_bytes(len) == [i \in 1 .. 4 |-> (len \div (256 ^ (4 - i))) % 256]

\* (len as u32).to_le_bytes(): the four low bytes, least significant first
to_le_bytes(len) == [i \in 1 .. 4 |-> (len \div (256 ^ (i - 1))) % 256]

\* the memory of the memory manager that get_upgrades_memory returns
get_upgrades_memory == UPGRADES

\* the bytes of a memory after buf is written at offset (the memory grows
\* as needed and keeps what lies behind the written range)
WriteAt(memory, offset, buf) ==
    LET end == IF Len(memory) > offset + Len(buf)
               THEN Len(memory) ELSE offset + Len(buf)
    IN  [i \in 1 .. end |->
            IF i > offset /\ i <= offset + Len(buf) THEN buf[i - offset]
            ELSE IF i <= Len(memory) THEN memory[i] ELSE 0]

\* Writer::new(&mut memory, offset)
Writer(memory, offset) == [memory |-> memory, offset |-> offset]

\* Writer::write: the bytes go to the writer's offset, which moves behind them
writer_write(writer, buf) ==
    [memory |-> WriteAt(writer.memory, writer.offset, buf),
     offset |-> writer.offset + Len(buf)]

\* the memories after pre_upgrade has written state_bytes
pre_upgrade(memories, state_bytes) ==
    LET len == to_le_bytes(Len(state_bytes))
        writer == Writer(memories[get_upgrades_memory], 0)
        after_len == writer_write(writer, len)
        after_state == writer_write(after_len, state_bytes)
    IN  [memories EXCEPT ![get_upgrades_memory] = after_state.memory]

PreUpgrade ==
    /\ \E state_bytes \in SerializedStates :
        /\ memory_manager' = pre_upgrade(memory_manager, state_bytes)
        /\ ret' = [op |-> "pre_upgrade", state_bytes |-> state_bytes]
    /\ UNCHANGED <<id, created_at, hot_or_not_details, token_balance, opening>>

UpgradeNext == PreUpgrade

UpgradeSpec == Init /\ [][UpgradeNext]_vars

(***************************************************************************)
(* C40.  pre_upgrade writes to the upgrades memory (memory id 0), from     *)
(* offset 0, the 4-byte little-endian length of the serialized state and   *)
(* then exactly that many serialized bytes, so a reader that takes the     *)
(* first 4 bytes as a length recovers the full serialized state.           *)
(***************************************************************************)
\* u32::from_le_bytes
from_le_bytes(bytes) ==
    bytes[1] + (256 * bytes[2]) + (65536 * bytes[3]) + (16777216 * bytes[4])

C40_LengthPrefixedState ==
    ret.op = "pre_upgrade" =>
      LET memory == memory_manager[0]
      IN  /\ Len(memory) >= 4
          /\ from_le_bytes(SubSeq(memory, 1, 4)) = Len(ret.state_bytes)
          /\ Len(memory) >= 4 + Len(ret.state_bytes)
          /\ SubSeq(memory, 5, 4 + Len(ret.state_bytes)) = ret.state_bytes
          /\ \A m \in MemoryIds \ {0} : memory_manager[m] = <<>>

\* a state of 256 bytes has been written over the longer image of an
\* earlier upgrade, whose tail is still in the memory
C40_Witness ==
    /\ ret.op = "pre_upgrade"
    /\ Len(ret.state_bytes) = 256
    /\ Len(memory_manager[0]) = 304
    /\ SubSeq(memory_manager[0], 1, 4) = <<0, 1, 0, 0>>

====
